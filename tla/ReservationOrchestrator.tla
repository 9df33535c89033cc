---------------------- MODULE ReservationOrchestrator ----------------------
(***************************************************************************)
(* The reservation automation of the ops worker (ops-worker/worker.py,     *)
(* class ReservationOrchestrator with handle_reservation_start and         *)
(* handle_reservation_end): a periodic scan reads the lab_reservations     *)
(* projection, then dispatches its start and end candidates one by one     *)
(* over Wake-on-LAN and WinRM, records each outcome and moves the          *)
(* projection.  While a scan works on its snapshot, reservations are       *)
(* cancelled, time passes, operators call the same handlers by hand and    *)
(* the worker may die.                                                     *)
(*                                                                         *)
(* Time is the position of each reservation against its own window.        *)
(***************************************************************************)
EXTENDS Naturals

CONSTANTS N,                \* number of reservations, in start order
          Hosts,            \* Lab Station hosts of the registry
          Unmapped,         \* a lab no host is mapped to
          HostOf,           \* the host of each reservation's lab
          Manual,           \* operators may call /api/reservations/*
          MaxCrashes        \* bound: deaths of the worker process

Res == 1..N
Free == 0                   \* a host prepared for nobody
ByHand == N + 1             \* a host that an operator prepared
Mapped == {r \in Res : HostOf[r] # Unmapped}

ASSUME ResAssumption  == N \in Nat \ {0}
ASSUME HostAssumption == Unmapped \notin Hosts /\ HostOf \in [Res -> Hosts \cup {Unmapped}]
ASSUME BoundAssumption == Manual \in BOOLEAN /\ MaxCrashes \in Nat

VARIABLES phase,            \* where now lies against each reservation's window
          missed,           \* reservations whose start lies beyond the lookback
          status,           \* lab_reservations.status
          cooling,          \* <<op, r>> with a scheduler record within the cooldown
          scan,             \* the run of scan_once
          session,          \* whom each Lab Station is prepared for
          prepared,         \* reservations that were prepared (history)
          released,         \* reservations that were released (history)
          crashes

vars == <<phase, missed, status, cooling, scan, session, prepared, released, crashes>>

\* Positions against the window: before start - start_lead, before start,
\* before end, before end + end_delay, before end + lookback, after it.
Future  == 0
Lead    == 1
Running == 2
Over    == 3
Due     == 4
Lapsed  == 5

Ops == {"start", "end"}
Statuses == {"NONE", "CONFIRMED", "ACTIVE", "COMPLETED", "CANCELLED"}
Final == {"COMPLETED", "CANCELLED"}

Idle == [pc |-> "idle", starts |-> {}, ends |-> {}, snap |-> [r \in Res |-> "NONE"],
         op |-> "start", cur |-> Free, ok |-> FALSE]

ScanType == [pc : {"idle", "loop", "wake", "prepare", "release", "record", "update"},
             starts : SUBSET Res, ends : SUBSET Res, snap : [Res -> Statuses],
             op : Ops, cur : Res \cup {Free}, ok : BOOLEAN]

\* A command is sent to a host of the registry only.
Commanding == {"wake", "prepare", "release"}

TypeOK ==
  /\ phase \in [Res -> Future..Lapsed]
  /\ missed \subseteq Res
  /\ status \in [Res -> Statuses]
  /\ cooling \subseteq Ops \X Res
  /\ scan \in ScanType
  /\ scan.pc \in Commanding => scan.cur \in Mapped
  /\ session \in [Hosts -> Res \cup {Free, ByHand}]
  /\ prepared \subseteq Res
  /\ released \subseteq Res
  /\ crashes \in 0..MaxCrashes

Init ==
  /\ phase = [r \in Res |-> Future]
  /\ missed = {}
  /\ status = [r \in Res |-> "NONE"]
  /\ cooling = {}
  /\ scan = Idle
  /\ session = [h \in Hosts |-> Free]
  /\ prepared = {} /\ released = {}
  /\ crashes = 0

-----------------------------------------------------------------------------
(* Time and the projection, which blockchain-services writes.              *)

\* Reservations of one host follow each other: the next one starts no earlier
\* than the previous one ends.
Advance(r) ==
  /\ phase[r] < Lapsed
  /\ \A q \in Res : q < r /\ HostOf[q] = HostOf[r] =>
       /\ phase[q] > phase[r]
       /\ phase[r] + 1 = Running => phase[q] >= Over
  /\ phase' = [phase EXCEPT ![r] = @ + 1]
  /\ UNCHANGED <<missed, status, cooling, scan, session, prepared, released, crashes>>

StartLapses(r) ==
  /\ phase[r] >= Running /\ r \notin missed
  /\ missed' = missed \cup {r}
  /\ UNCHANGED <<phase, status, cooling, scan, session, prepared, released, crashes>>

CooldownElapses(op, r) ==
  /\ <<op, r>> \in cooling
  /\ cooling' = cooling \ {<<op, r>>}
  /\ UNCHANGED <<phase, missed, status, scan, session, prepared, released, crashes>>

Confirm(r) ==
  /\ status[r] = "NONE"
  /\ status' = [status EXCEPT ![r] = "CONFIRMED"]
  /\ UNCHANGED <<phase, missed, cooling, scan, session, prepared, released, crashes>>

Cancel(r) ==
  /\ status[r] \in {"CONFIRMED", "ACTIVE"} /\ phase[r] < Over
  /\ status' = [status EXCEPT ![r] = "CANCELLED"]
  /\ UNCHANGED <<phase, missed, cooling, scan, session, prepared, released, crashes>>

-----------------------------------------------------------------------------
(* What a Lab Station command leaves behind; a command that fails for the  *)
(* gateway (exit code, WinRM timeout) may have run all the same.           *)

PreparedFor(r) == /\ session' = [session EXCEPT ![HostOf[r]] = r]
                  /\ prepared' = prepared \cup {r}

\* release-session --reboot: whoever uses the host loses it.
Released(r) == /\ session' = [session EXCEPT ![HostOf[r]] = Free]
               /\ released' = released \cup {r}

ManualStart(r) ==
  /\ Manual /\ r \in Mapped
  /\ session' = [session EXCEPT ![HostOf[r]] = ByHand]
  /\ prepared' = prepared \cup {r}
  /\ UNCHANGED <<phase, missed, status, cooling, scan, released, crashes>>

ManualEnd(r) ==
  /\ Manual /\ r \in Mapped
  /\ Released(r)
  /\ UNCHANGED <<phase, missed, status, cooling, scan, prepared, crashes>>

-----------------------------------------------------------------------------
(* scan_once: one query for both lists, then the dispatches in order.      *)

StartCandidates == {r \in Res : /\ status[r] = "CONFIRMED"
                                /\ phase[r] >= Lead /\ r \notin missed
                                /\ <<"start", r>> \notin cooling}

\* Mutated form: only reservations that became ACTIVE are cleaned up.
EndCandidatesActive == {r \in Res : /\ status[r] = "ACTIVE"
                                    /\ phase[r] = Due
                                    /\ <<"end", r>> \notin cooling}

EndCandidates == {r \in Res : /\ status[r] \in {"CONFIRMED", "ACTIVE"}
                              /\ phase[r] = Due
                              /\ <<"end", r>> \notin cooling}

ScanOnce ==
  /\ scan.pc = "idle"
  /\ StartCandidates \cup EndCandidates # {}
  /\ scan' = [Idle EXCEPT !.pc = "loop", !.starts = StartCandidates,
                          !.ends = EndCandidates, !.snap = status]
  /\ UNCHANGED <<phase, missed, status, cooling, session, prepared, released, crashes>>

IsFirst(r, S) == r \in S /\ \A q \in S : r <= q

Goto(pc) == scan' = [scan EXCEPT !.pc = pc]
Outcome(ok) == scan' = [scan EXCEPT !.pc = "record", !.ok = ok]

\* A lab without a host is recorded as a failure.
DispatchStart(r) ==
  /\ scan.pc = "loop" /\ IsFirst(r, scan.starts)
  /\ scan' = [scan EXCEPT !.starts = @ \ {r}, !.op = "start", !.cur = r, !.ok = FALSE,
                          !.pc = IF r \notin Mapped THEN "record" ELSE "wake"]
  /\ UNCHANGED <<phase, missed, status, cooling, session, prepared, released, crashes>>

\* Mutated form: ends are dispatched while starts are left.
DispatchEndEarly(r) ==
  /\ scan.pc = "loop" /\ IsFirst(r, scan.ends)
  /\ scan' = [scan EXCEPT !.ends = @ \ {r}, !.op = "end", !.cur = r, !.ok = FALSE,
                          !.pc = IF r \notin Mapped THEN "record" ELSE "release"]
  /\ UNCHANGED <<phase, missed, status, cooling, session, prepared, released, crashes>>

DispatchEnd(r) ==
  /\ scan.pc = "loop" /\ scan.starts = {} /\ IsFirst(r, scan.ends)
  /\ scan' = [scan EXCEPT !.ends = @ \ {r}, !.op = "end", !.cur = r, !.ok = FALSE,
                          !.pc = IF r \notin Mapped THEN "record" ELSE "release"]
  /\ UNCHANGED <<phase, missed, status, cooling, session, prepared, released, crashes>>

ScanEnds ==
  /\ scan.pc = "loop" /\ scan.starts = {} /\ scan.ends = {}
  /\ scan' = Idle
  /\ UNCHANGED <<phase, missed, status, cooling, session, prepared, released, crashes>>

\* perform_wake_step; a host that does not answer is not prepared.
Wake(reachable) ==
  /\ scan.pc = "wake"
  /\ IF reachable THEN Goto("prepare") ELSE Outcome(FALSE)
  /\ UNCHANGED <<phase, missed, status, cooling, session, prepared, released, crashes>>

\* perform_command_step with prepare-session.
Prepare(ok) ==
  /\ scan.pc = "prepare"
  /\ Outcome(ok)
  /\ \/ PreparedFor(scan.cur)
     \/ ~ok /\ UNCHANGED <<session, prepared>>
  /\ UNCHANGED <<phase, missed, status, cooling, released, crashes>>

\* perform_command_step with release-session.
Release(ok) ==
  /\ scan.pc = "release"
  /\ Outcome(ok)
  /\ \/ Released(scan.cur)
     \/ ~ok /\ UNCHANGED <<session, released>>
  /\ UNCHANGED <<phase, missed, status, cooling, prepared, crashes>>

\* Mutated form: the status moves whether the command succeeded or not.
RecordOpTrustsDispatch(saved) ==
  /\ scan.pc = "record"
  /\ cooling' = IF saved THEN cooling \cup {<<scan.op, scan.cur>>} ELSE cooling
  /\ Goto("update")
  /\ UNCHANGED <<phase, missed, status, session, prepared, released, crashes>>

\* _record_scheduler_op starts the cooldown; a database error is only logged.
RecordOp(saved) ==
  /\ scan.pc = "record"
  /\ cooling' = IF saved THEN cooling \cup {<<scan.op, scan.cur>>} ELSE cooling
  /\ Goto(IF scan.ok THEN "update" ELSE "loop")
  /\ UNCHANGED <<phase, missed, status, session, prepared, released, crashes>>

\* The transitions _update_status lets through.
Allowed(old, new) == <<old, new>> \in {<<"CONFIRMED", "ACTIVE">>, <<"CONFIRMED", "COMPLETED">>,
                                      <<"ACTIVE", "COMPLETED">>}

Target == IF scan.op = "start" THEN "ACTIVE" ELSE "COMPLETED"

\* Mutated form: UPDATE without the condition on the status read.
SetStatusBlindly(r, old, new) ==
  status' = IF Allowed(old, new) THEN [status EXCEPT ![r] = new] ELSE status

\* UPDATE ... WHERE status = the status the scan read.
SetStatus(r, old, new) ==
  status' = IF Allowed(old, new) /\ status[r] = old THEN [status EXCEPT ![r] = new] ELSE status

UpdateStatus(saved) ==
  /\ scan.pc = "update"
  /\ IF saved THEN SetStatus(scan.cur, scan.snap[scan.cur], Target) ELSE UNCHANGED status
  /\ Goto("loop")
  /\ UNCHANGED <<phase, missed, cooling, session, prepared, released, crashes>>

\* The worker dies in the middle of a scan and is started again.
Crash ==
  /\ scan.pc # "idle" /\ crashes < MaxCrashes
  /\ scan' = Idle /\ crashes' = crashes + 1
  /\ UNCHANGED <<phase, missed, status, cooling, session, prepared, released>>

-----------------------------------------------------------------------------
Next ==
  \/ ScanOnce \/ ScanEnds \/ Crash
  \/ \E r \in Res : \/ Advance(r) \/ StartLapses(r) \/ Confirm(r) \/ Cancel(r)
                    \/ ManualStart(r) \/ ManualEnd(r)
                    \/ DispatchStart(r) \/ DispatchEnd(r)
                    \/ \E op \in Ops : CooldownElapses(op, r)
  \/ \E b \in BOOLEAN : Wake(b) \/ Prepare(b) \/ Release(b) \/ RecordOp(b) \/ UpdateStatus(b)

Spec == Init /\ [][Next]_vars

ScanStep == \/ ScanEnds
            \/ \E r \in Res : DispatchStart(r) \/ DispatchEnd(r)
            \/ \E b \in BOOLEAN : Wake(b) \/ Prepare(b) \/ Release(b) \/ RecordOp(b) \/ UpdateStatus(b)

\* The scheduler fires again, a dispatch ends, time passes up to the due time,
\* and of one reservation neither the release command nor the status update
\* fails for ever.
Fairness ==
  /\ WF_vars(ScanOnce) /\ WF_vars(ScanStep)
  /\ \A r \in Mapped : /\ WF_vars(phase[r] < Due /\ Advance(r))
                       /\ WF_vars(CooldownElapses("end", r))
                       /\ SF_vars(scan.cur = r /\ Release(TRUE))
                       /\ SF_vars(scan.cur = r /\ scan.op = "end" /\ UpdateStatus(TRUE))

FairSpec == Spec /\ Fairness

-----------------------------------------------------------------------------
(* Properties.                                                             *)

\* The projection says only what was done: a reservation is ACTIVE or was
\* COMPLETED by the worker only after its own prepare-session or
\* release-session succeeded, however stale the row the scan works on
\* ("move the local projection to `ACTIVE` only after success ... to
\* `COMPLETED` only after successful cleanup",
\* docs/workflows/gateway-lab-station-operations.md).
StatusIsEarned ==
  \A r \in Res : /\ status[r] = "ACTIVE" => r \in prepared
                 /\ status[r] = "COMPLETED" => r \in released

\* A scan never overwrites a cancellation or a completion it did not see, and
\* no reservation goes back from ACTIVE to CONFIRMED.
StatusMovesForward ==
  [][\A r \in Res : /\ status[r] \in Final => status'[r] = status[r]
                    /\ status[r] = "ACTIVE" => status'[r] \in {"ACTIVE"} \cup Final]_vars

\* No Lab Station is left as the worker prepared it for a reservation that the
\* worker completed: nothing of the same scan prepares it after its release
\* (scan_once dispatches the starts first).
CompletedIsClean ==
  \A r \in Mapped : status[r] = "COMPLETED" => session[HostOf[r]] # r

\* A reservation whose end has been due is settled, through failed commands,
\* lost scans, failed updates and stale rows, unless the lookback runs out.
EndedIsSettled ==
  \A r \in Mapped : status[r] \in {"CONFIRMED", "ACTIVE"}
                      ~> status[r] \in Final \/ phase[r] = Lapsed

\* "ACTIVE --> COMPLETED: release-session succeeds"
\* (docs/workflows/gateway-lab-station-operations.md): once the release
\* succeeded and the database took the update, the reservation is not ACTIVE.
ReleaseCompletes ==
  [][\A r \in Res :
       scan.pc = "update" /\ scan.op = "end" /\ scan.cur = r /\ UpdateStatus(TRUE)
         => status'[r] \in Final]_vars
-----------------------------------------------------------------------------
(* Refinement.                                                             *)

Lifecycle == INSTANCE ReservationLifecycle WITH station <- session

\* Behind scans over stale rows, cooldowns, commands of unknown outcome, updates
\* that fail and deaths of the worker, every reservation goes through the
\* lifecycle of ReservationLifecycle (scan_once, _dispatch, _update_status).
ImplementsLifecycle == Lifecycle!Spec
=============================================================================
