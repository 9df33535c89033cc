------------------------- MODULE ObservationOutbox -------------------------
(***************************************************************************)
(* The durable session-observation outbox of the ops worker                *)
(* (ops-worker/worker.py): HTTP threads insert observations into a MySQL   *)
(* table, one scheduled job claims batches of rows, posts each one to the  *)
(* audit endpoint of blockchain-services and marks the outcome.  Every     *)
(* transaction is one step, so ingestion, claims, posts and marks          *)
(* interleave, and the worker may die between any two of them.             *)
(*                                                                         *)
(* Time is relative: a row is due (next_attempt_at <= now) or not, a lock  *)
(* is stale (older than 60 s) or not, and before orders the due rows by    *)
(* next_attempt_at.                                                        *)
(***************************************************************************)
EXTENDS Naturals, FiniteSets

CONSTANTS Obs,              \* observations, named by their dedup key
          NoRow,            \* the job is not working on a row
          MaxAttempts,      \* SESSION_OBSERVATION_OUTBOX_MAX_ATTEMPTS
          BatchSize,        \* SESSION_OBSERVATION_OUTBOX_BATCH_SIZE
          EntryPoint,       \* how the process is launched
          MaxIngests,       \* bound: reports of one observation
          MaxCrashes        \* bound: deaths of the worker process

ASSUME ObsAssumption == IsFiniteSet(Obs) /\ NoRow \notin Obs
ASSUME LimitAssumption == MaxAttempts \in Nat \ {0} /\ BatchSize \in Nat \ {0}
ASSUME EntryAssumption == EntryPoint \in {"main", "waitress"}
ASSUME BoundAssumption == MaxIngests \in Nat /\ MaxCrashes \in Nat

VARIABLES rows,             \* gateway_session_observation_outbox by dedup_key
          due,              \* rows whose next_attempt_at has passed
          before,           \* <<a, b>>: a's next_attempt_at precedes b's
          duplicates,       \* inserts that met IntegrityError, not yet recovered
          job,              \* the run of deliver_session_observation_outbox
          recorded,         \* observations the audit backend holds
          up,               \* the worker process is running
          ingests, crashes  \* how often the bounded events happened

vars == <<rows, due, before, duplicates, job, recorded, up, ingests, crashes>>

Statuses == {"ABSENT", "PENDING", "RETRY", "SENDING", "SENT", "FAILED"}
Waiting  == {"PENDING", "RETRY"}
Settled  == {"SENT", "FAILED"}

Idle == [pc |-> "idle", cur |-> NoRow, batch |-> {}, read |-> [k \in Obs |-> 0]]

RowType == [status : Statuses, attempts : 0..MaxAttempts, stale : BOOLEAN]
JobType == [pc : {"idle", "deliver", "accepted", "rejected", "error"},
            cur : Obs \cup {NoRow}, batch : SUBSET Obs, read : [Obs -> 0..MaxAttempts]]

QueueTypeOK == due \subseteq Obs /\ before \subseteq Obs \X Obs

TypeOK ==
  /\ rows \in [Obs -> RowType]
  /\ QueueTypeOK
  /\ duplicates \subseteq Obs
  /\ job \in JobType
  /\ recorded \subseteq Obs
  /\ up \in BOOLEAN
  /\ ingests \in [Obs -> 0..MaxIngests]
  /\ crashes \in 0..MaxCrashes

Init ==
  /\ rows = [k \in Obs |-> [status |-> "ABSENT", attempts |-> 0, stale |-> FALSE]]
  /\ due = {} /\ before = {} /\ duplicates = {}
  /\ job = Idle
  /\ recorded = {}
  /\ up = FALSE
  /\ ingests = [k \in Obs |-> 0] /\ crashes = 0

\* next_attempt_at of every row of K becomes now: they queue behind all others.
Requeue(K) ==
  /\ due' = due \cup K
  /\ before' = {p \in before : p[1] \notin K /\ p[2] \notin K} \cup ((due \ K) \X K)

-----------------------------------------------------------------------------
(* The process.  start_scheduler is called by main() only.                 *)

Launch ==
  /\ ~up
  /\ up' = TRUE
  /\ UNCHANGED <<rows, due, before, duplicates, job, recorded, ingests, crashes>>

SchedulerRunning == up /\ EntryPoint = "main"

\* The table survives; requests in progress and the run of the job do not.
Crash ==
  /\ up /\ crashes < MaxCrashes
  /\ up' = FALSE /\ crashes' = crashes + 1
  /\ duplicates' = {} /\ job' = Idle
  /\ UNCHANGED <<rows, due, before, recorded, ingests>>

-----------------------------------------------------------------------------
(* enqueue_session_observation: INSERT, and in a transaction of its own    *)
(* the recovery of a row that exists.                                      *)

Ingest(k) ==
  /\ up /\ k \notin duplicates /\ ingests[k] < MaxIngests
  /\ ingests' = [ingests EXCEPT ![k] = @ + 1]
  /\ \/ /\ rows[k].status = "ABSENT"
        /\ rows' = [rows EXCEPT ![k].status = "PENDING"]
        /\ Requeue({k})
        /\ UNCHANGED duplicates
     \/ /\ rows[k].status # "ABSENT"
        /\ duplicates' = duplicates \cup {k}
        /\ UNCHANGED <<rows, due, before>>
  /\ UNCHANGED <<job, recorded, up, crashes>>

\* Mutated form: a reopened row keeps the attempts it has made.
RecoverKeepsAttempts(k) ==
  /\ up /\ k \in duplicates
  /\ duplicates' = duplicates \ {k}
  /\ rows[k].status = "FAILED"
  /\ rows' = [rows EXCEPT ![k].status = "RETRY"]
  /\ Requeue({k})
  /\ UNCHANGED <<job, recorded, up, ingests, crashes>>

\* Mutated form: the CASE on the status is lost, every row is reopened.
RecoverReopensAll(k) ==
  /\ up /\ k \in duplicates
  /\ duplicates' = duplicates \ {k}
  /\ rows' = [rows EXCEPT ![k] = [status |-> "RETRY", attempts |-> 0, stale |-> FALSE]]
  /\ Requeue({k})
  /\ UNCHANGED <<job, recorded, up, ingests, crashes>>

RecoverDuplicate(k) ==
  /\ up /\ k \in duplicates
  /\ duplicates' = duplicates \ {k}
  /\ \/ /\ rows[k].status = "FAILED"
        /\ rows' = [rows EXCEPT ![k] = [status |-> "RETRY", attempts |-> 0, stale |-> FALSE]]
        /\ Requeue({k})
     \/ /\ rows[k].status = "RETRY"
        /\ Requeue({k})
        /\ UNCHANGED rows
     \/ /\ rows[k].status \notin {"FAILED", "RETRY"}
        /\ UNCHANGED <<rows, due, before>>
  /\ UNCHANGED <<job, recorded, up, ingests, crashes>>

-----------------------------------------------------------------------------
(* Time.                                                                   *)

\* session_observation_retry_delay_seconds have passed.
BackoffElapses(k) ==
  /\ rows[k].status = "RETRY" /\ k \notin due
  /\ Requeue({k})
  /\ UNCHANGED <<rows, duplicates, job, recorded, up, ingests, crashes>>

LockAges(k) ==
  /\ rows[k].status = "SENDING" /\ ~rows[k].stale
  /\ rows' = [rows EXCEPT ![k].stale = TRUE]
  /\ UNCHANGED <<due, before, duplicates, job, recorded, up, ingests, crashes>>

-----------------------------------------------------------------------------
(* The delivery job.  APScheduler runs one instance of it at a time.       *)

\* Mutated form: a lock is never taken back.
NothingReopened == {}

\* SENDING rows whose lock is older than the 60 s of a run's budget.
Reopened == {k \in Obs : rows[k].status = "SENDING" /\ rows[k].stale}

\* One transaction: reopen the rows a lost run left locked, then lock the
\* batch that is due longest.
ClaimRows ==
  /\ SchedulerRunning /\ job.pc = "idle"
  /\ LET reopened == Reopened
         eligible == due \cup reopened
         earlier  == before \cup (due \X reopened)
     IN  /\ eligible # {}
         /\ \E batch \in SUBSET eligible :
              /\ Cardinality(batch) = BatchSize \/ batch = eligible
              /\ Cardinality(batch) <= BatchSize
              /\ \A k \in batch, j \in eligible \ batch : <<j, k>> \notin earlier
              /\ rows' = [k \in Obs |->
                            IF k \in batch
                              THEN [rows[k] EXCEPT !.status = "SENDING", !.stale = FALSE]
                            ELSE IF k \in reopened
                              THEN [rows[k] EXCEPT !.status = "RETRY", !.stale = FALSE]
                            ELSE rows[k]]
              /\ due' = eligible \ batch
              /\ before' = {p \in earlier : p[1] \notin batch /\ p[2] \notin batch}
              /\ job' = [pc |-> "deliver", cur |-> NoRow, batch |-> batch,
                         read |-> [k \in Obs |-> IF k \in batch THEN rows[k].attempts ELSE 0]]
  /\ UNCHANGED <<duplicates, recorded, up, ingests, crashes>>

Turn(k, pc) == job' = [job EXCEPT !.pc = pc, !.cur = k]

\* The loop goes to the next record of the batch, or the run ends.
NextRecord ==
  LET rest == job.batch \ {job.cur}
  IN  job' = IF rest = {} THEN Idle
             ELSE [job EXCEPT !.pc = "deliver", !.cur = NoRow, !.batch = rest]

\* No usable signing secret: nothing is sent.
AuthorizationFails(k) ==
  /\ job.pc = "deliver" /\ k \in job.batch
  /\ Turn(k, "error")
  /\ UNCHANGED <<rows, due, before, duplicates, recorded, up, ingests, crashes>>

\* Mutated form: any 2xx answer counts, whatever "recorded" says.
PostTrustsStatus(k) ==
  /\ job.pc = "deliver" /\ k \in job.batch
  /\ Turn(k, "accepted")
  /\ UNCHANGED <<rows, due, before, duplicates, recorded, up, ingests, crashes>>

\* The backend records the observation or not; its answer may be lost.
Post(k) ==
  /\ job.pc = "deliver" /\ k \in job.batch
  /\ \/ Turn(k, "accepted") /\ recorded' = recorded \cup {k}
     \/ Turn(k, "rejected") /\ UNCHANGED recorded
     \/ Turn(k, "error") /\ recorded' \in {recorded, recorded \cup {k}}
  /\ UNCHANGED <<rows, due, before, duplicates, up, ingests, crashes>>

\* How a transaction ends for its caller: an exception leaves open whether
\* the database committed.
Commits == {"done", "done_raised", "raised"}

\* UPDATE ... WHERE status = 'SENDING'.
SetDelivered(k) ==
  rows' = IF rows[k].status = "SENDING"
          THEN [rows EXCEPT ![k].status = "SENT", ![k].stale = FALSE] ELSE rows

\* Mutated form: the update is not guarded by status = 'SENDING'.
SetFailureUnguarded(k) ==
  rows' = [rows EXCEPT ![k] = [status |-> IF job.read[k] + 1 >= MaxAttempts THEN "FAILED" ELSE "RETRY",
                               attempts |-> job.read[k] + 1, stale |-> FALSE]]

SetFailure(k) ==
  LET attempts == job.read[k] + 1
  IN  rows' = IF rows[k].status = "SENDING"
              THEN [rows EXCEPT ![k] = [status |-> IF attempts >= MaxAttempts THEN "FAILED" ELSE "RETRY",
                                        attempts |-> attempts, stale |-> FALSE]]
              ELSE rows

\* An exception here is handled like a failed post.
MarkDelivered(commit) ==
  /\ job.pc = "accepted"
  /\ IF commit = "raised" THEN UNCHANGED rows ELSE SetDelivered(job.cur)
  /\ IF commit = "done" THEN NextRecord ELSE Turn(job.cur, "error")
  /\ UNCHANGED <<due, before, duplicates, recorded, up, ingests, crashes>>

\* After a refusal an exception leads to a second try; in the exception
\* handler it ends the run, and the rest of the batch stays locked.
MarkFailure(commit) ==
  /\ job.pc \in {"rejected", "error"}
  /\ IF commit = "raised" THEN UNCHANGED rows ELSE SetFailure(job.cur)
  /\ \/ commit = "done" /\ NextRecord
     \/ commit # "done" /\ job.pc = "rejected" /\ Turn(job.cur, "error")
     \/ commit # "done" /\ job.pc = "error" /\ job' = Idle
  /\ UNCHANGED <<due, before, duplicates, recorded, up, ingests, crashes>>

-----------------------------------------------------------------------------
Deliver(k) == AuthorizationFails(k) \/ Post(k)

Next ==
  \/ Launch \/ Crash \/ ClaimRows
  \/ \E k \in Obs : \/ Ingest(k) \/ RecoverDuplicate(k)
                    \/ BackoffElapses(k) \/ LockAges(k)
                    \/ Deliver(k)
  \/ \E commit \in Commits : MarkDelivered(commit) \/ MarkFailure(commit)

Spec == Init /\ [][Next]_vars

\* The container restarts the worker, the scheduler keeps firing, time passes
\* and a job step ends; the database may fail, but not every time it is asked.
Fairness ==
  /\ WF_vars(Launch) /\ WF_vars(ClaimRows)
  /\ \A k \in Obs : WF_vars(BackoffElapses(k)) /\ WF_vars(LockAges(k))
  /\ WF_vars(\E k \in Obs : Deliver(k))
  /\ WF_vars(\E commit \in Commits : MarkDelivered(commit) \/ MarkFailure(commit))
  /\ \A k \in Obs : SF_vars(job.cur = k /\ MarkFailure("done"))

FairSpec == Spec /\ Fairness

-----------------------------------------------------------------------------
(* Safety.                                                                 *)

\* A row is SENT only if the audit backend recorded the observation, whatever
\* crashed, timed out or was answered twice in between
\* (_mark_session_observation_delivered, deliver_session_observation_outbox).
SentWasRecorded == \A k \in Obs : rows[k].status = "SENT" => k \in recorded

\* The rows a run still has to deliver are locked by it alone: no transaction
\* of another thread makes one of them claimable again before the run ends.
ClaimIsExclusive ==
  \A k \in job.batch \ {job.cur} : rows[k].status = "SENDING" /\ k \notin due

\* The retry budget is spent exactly when a row is given up: a row that is
\* still tried has attempts left, and no row is given up with attempts left.
FailedIffExhausted ==
  \A k \in Obs : rows[k].status # "ABSENT" =>
    /\ rows[k].status = "FAILED" => rows[k].attempts = MaxAttempts
    /\ rows[k].status \in Waiting \cup {"SENDING"} => rows[k].attempts < MaxAttempts

\* A delivered observation is final, and a row leaves FAILED only because the
\* gateway observed the session again; both hold for every step of every
\* thread ("A terminal delivery is reopened only when the trusted gateway
\* observes the same session again", enqueue_session_observation).
TerminalIsFinal ==
  [][\A k \in Obs :
       /\ rows[k].status = "SENT" => rows'[k] = rows[k]
       /\ rows[k].status = "FAILED" /\ rows'[k] # rows[k] => k \in duplicates \ duplicates']_vars

-----------------------------------------------------------------------------
(* Liveness and refinement.                                                *)

\* A pending row is taken up: "The worker retries delivery with backoff and
\* marks it sent only after the backend confirms"
\* (docs/guacamole-session-policy.md, start_scheduler).
PendingIsTakenUp ==
  \A k \in Obs : rows[k].status = "PENDING" ~> rows[k].status # "PENDING"

PhaseOf(status) ==
  CASE status = "ABSENT" -> "none"
    [] status = "SENT"   -> "delivered"
    [] status = "FAILED" -> "failed"
    [] OTHER             -> "queued"

phase == [k \in Obs |-> PhaseOf(rows[k].status)]

Delivery == INSTANCE ObservationDelivery
              WITH Obs <- Obs, phase <- phase, recorded <- recorded

\* The outbox with its batches, locks and crashes implements the delivery
\* contract: an observation is queued until it is delivered, which needs the
\* backend's record, or given up, and a delivered one is never queued again.
ImplementsDelivery == Delivery!Spec

\* With the scheduler running, the contract's liveness holds as well.
ImplementsLiveDelivery == Delivery!LiveSpec
=============================================================================
