---------------------- MODULE ObservationOutbox_proofs ----------------------
(***************************************************************************)
(* Proofs about the session-observation outbox for every set of            *)
(* observations, retry budget, batch size and bound.                       *)
(***************************************************************************)
EXTENDS ObservationOutbox, TLAPS

\* Past the head of the loop the job works on a row of its batch.
WorksOnBatch ==
  job.pc \in {"accepted", "rejected", "error"} => job.cur \in job.batch

\* At the head of the loop no row has its turn yet.
FreshDelivery == job.pc = "deliver" => job.cur = NoRow

\* A success answer was preceded by the backend's record.
AnswerIsTrue == job.pc = "accepted" => job.cur \in recorded

\* The due rows are those the claim's SELECT can return.
DueIsWaiting == \A k \in due : rows[k].status \in Waiting

\* The attempts a run read leave room for the one it makes.
ReadHasRoom == \A k \in job.batch : job.read[k] < MaxAttempts

\* Rows that were never inserted have made no attempt.
AbsentIsFresh == \A k \in Obs : rows[k].status = "ABSENT" => rows[k].attempts = 0

IInv == /\ TypeOK
        /\ SentWasRecorded
        /\ ClaimIsExclusive
        /\ FailedIffExhausted
        /\ WorksOnBatch
        /\ FreshDelivery
        /\ AnswerIsTrue
        /\ DueIsWaiting
        /\ ReadHasRoom
        /\ AbsentIsFresh

-----------------------------------------------------------------------------
(* Lemmas about the operators the actions share.                           *)

LEMMA IdleType == Idle \in JobType
  BY LimitAssumption DEF Idle, JobType

\* Requeueing rows keeps the types of the queue and disturbs no other row.
LEMMA RequeueType ==
  ASSUME QueueTypeOK, NEW K \in SUBSET Obs, Requeue(K)
  PROVE  QueueTypeOK' /\ due' = due \cup K
  BY DEF QueueTypeOK, Requeue

\* Ending the turn of a row keeps the job well formed: what is left of the
\* batch was in it, with the attempts that were read.
LEMMA NextRecordType ==
  ASSUME job \in JobType, NextRecord
  PROVE  /\ job' \in JobType /\ job'.pc \in {"idle", "deliver"} /\ job'.cur = NoRow
         /\ job'.batch \subseteq job.batch \ {job.cur}
         /\ \A k \in job'.batch : job'.read[k] = job.read[k]
  <1>1. CASE job.batch \ {job.cur} = {}
    BY <1>1, IdleType DEF NextRecord, Idle
  <1>2. CASE job.batch \ {job.cur} # {}
    BY <1>2 DEF NextRecord, JobType
  <1> QED
    BY <1>1, <1>2

LEMMA TurnType ==
  ASSUME job \in JobType, NEW k \in Obs, NEW pc \in {"accepted", "rejected", "error"},
         Turn(k, pc)
  PROVE  /\ job' \in JobType /\ job'.pc = pc /\ job'.cur = k
         /\ job'.batch = job.batch /\ job'.read = job.read
  BY DEF Turn, JobType

\* What a step that ends or turns the work on row k leaves of the job.
JobStep(k) ==
  /\ job' \in JobType
  /\ job'.pc \in {"idle", "deliver", "error"}
  /\ IF job'.pc = "error" THEN job'.cur = k /\ job'.batch = job.batch
                          ELSE job'.cur = NoRow /\ job'.batch \subseteq job.batch \ {k}
  /\ \A j \in job'.batch : job'.read[j] = job.read[j]

-----------------------------------------------------------------------------
\* The inductive invariant holds of an empty outbox.
LEMMA InitInv == Init => IInv
  <1> SUFFICES ASSUME Init PROVE IInv
    OBVIOUS
  <1>1. TypeOK
    <2>1. rows \in [Obs -> RowType]
      BY LimitAssumption DEF Init, RowType, Statuses
    <2>2. QueueTypeOK /\ duplicates \subseteq Obs /\ recorded \subseteq Obs /\ up \in BOOLEAN
      BY DEF Init, QueueTypeOK
    <2>3. job \in JobType
      BY IdleType DEF Init
    <2>4. ingests \in [Obs -> 0..MaxIngests] /\ crashes \in 0..MaxCrashes
      BY BoundAssumption DEF Init
    <2> QED
      BY <2>1, <2>2, <2>3, <2>4 DEF TypeOK
  <1>2. SentWasRecorded /\ ClaimIsExclusive /\ FailedIffExhausted
    BY DEF Init, Idle, SentWasRecorded, ClaimIsExclusive, FailedIffExhausted
  <1>3. WorksOnBatch /\ FreshDelivery /\ AnswerIsTrue /\ DueIsWaiting /\ ReadHasRoom /\ AbsentIsFresh
    BY DEF Init, Idle, WorksOnBatch, FreshDelivery, AnswerIsTrue, DueIsWaiting, ReadHasRoom, AbsentIsFresh
  <1> QED
    BY <1>1, <1>2, <1>3 DEF IInv

-----------------------------------------------------------------------------
(* Each step of the HTTP threads, the clock, the process and the job.      *)

LEMMA IngestInv == ASSUME IInv, NEW k \in Obs, Ingest(k) PROVE IInv'
  <1>1. QueueTypeOK' /\ due' \subseteq due \cup {k} /\ (k \in due' \ due => rows'[k].status = "PENDING")
    BY RequeueType DEF IInv, TypeOK, Ingest, QueueTypeOK, RowType
  <1>2. rows' \in [Obs -> RowType]
    BY DEF IInv, TypeOK, Ingest, RowType, Statuses
  <1>3. \A j \in Obs : \/ rows'[j] = rows[j]
                       \/ /\ j = k /\ rows[k].status = "ABSENT"
                          /\ rows'[k].status = "PENDING" /\ rows'[k].attempts = rows[k].attempts
    BY DEF IInv, TypeOK, Ingest, RowType
  <1>4. UNCHANGED <<job, recorded, up, crashes>>
    BY DEF Ingest
  <1>5. TypeOK'
    <2>1. ingests' \in [Obs -> 0..MaxIngests]
      BY BoundAssumption DEF IInv, TypeOK, Ingest
    <2>2. duplicates' \subseteq Obs
      BY DEF IInv, TypeOK, Ingest
    <2> QED
      BY <1>1, <1>2, <1>4, <2>1, <2>2 DEF IInv, TypeOK
  <1>6. SentWasRecorded' /\ AbsentIsFresh' /\ DueIsWaiting'
    BY <1>1, <1>3, <1>4 DEF IInv, TypeOK, QueueTypeOK, SentWasRecorded, AbsentIsFresh, DueIsWaiting, Waiting
  <1>7. ClaimIsExclusive'
    BY <1>1, <1>3, <1>4 DEF IInv, TypeOK, JobType, ClaimIsExclusive
  <1>8. FailedIffExhausted'
    BY <1>3, LimitAssumption DEF IInv, FailedIffExhausted, AbsentIsFresh, Waiting
  <1>9. WorksOnBatch' /\ FreshDelivery' /\ AnswerIsTrue' /\ ReadHasRoom'
    BY <1>4 DEF IInv, WorksOnBatch, FreshDelivery, AnswerIsTrue, ReadHasRoom
  <1> QED
    BY <1>5, <1>6, <1>7, <1>8, <1>9 DEF IInv

LEMMA RecoverInv == ASSUME IInv, NEW k \in Obs, RecoverDuplicate(k) PROVE IInv'
  <1>1. QueueTypeOK' /\ due' \subseteq due \cup {k} /\ (k \in due' \ due => rows'[k].status = "RETRY")
    BY RequeueType DEF IInv, TypeOK, RecoverDuplicate, QueueTypeOK, RowType
  <1>2. rows' \in [Obs -> RowType]
    <2>1. [status |-> "RETRY", attempts |-> 0, stale |-> FALSE] \in RowType
      BY LimitAssumption DEF RowType, Statuses
    <2> QED
      BY <2>1 DEF IInv, TypeOK, RecoverDuplicate
  <1>3. \A j \in Obs : \/ rows'[j] = rows[j]
                       \/ /\ j = k /\ rows[k].status = "FAILED"
                          /\ rows'[k].status = "RETRY" /\ rows'[k].attempts = 0
    BY DEF IInv, TypeOK, RecoverDuplicate, RowType
  <1>4. UNCHANGED <<job, recorded, up, ingests, crashes>>
    BY DEF RecoverDuplicate
  <1>5. TypeOK'
    BY <1>1, <1>2, <1>4 DEF IInv, TypeOK, RecoverDuplicate
  <1>6. SentWasRecorded' /\ AbsentIsFresh' /\ DueIsWaiting'
    BY <1>1, <1>3, <1>4 DEF IInv, TypeOK, QueueTypeOK, SentWasRecorded, AbsentIsFresh, DueIsWaiting, Waiting
  <1>7. ClaimIsExclusive'
    <2>1. \A j \in job.batch \ {job.cur} : j \in Obs /\ rows'[j] = rows[j] /\ rows'[j].status = "SENDING"
      BY <1>3 DEF IInv, TypeOK, JobType, ClaimIsExclusive
    <2> QED
      BY <2>1, <1>1, <1>4 DEF IInv, ClaimIsExclusive
  <1>8. FailedIffExhausted'
    BY <1>3, LimitAssumption DEF IInv, FailedIffExhausted, Waiting
  <1>9. WorksOnBatch' /\ FreshDelivery' /\ AnswerIsTrue' /\ ReadHasRoom'
    BY <1>4 DEF IInv, WorksOnBatch, FreshDelivery, AnswerIsTrue, ReadHasRoom
  <1> QED
    BY <1>5, <1>6, <1>7, <1>8, <1>9 DEF IInv

LEMMA ClockInv ==
  ASSUME IInv, NEW k \in Obs, BackoffElapses(k) \/ LockAges(k) PROVE IInv'
  <1>1. QueueTypeOK' /\ due' \subseteq due \cup {k} /\ (k \in due' \ due => rows[k].status = "RETRY")
    BY RequeueType DEF IInv, TypeOK, BackoffElapses, LockAges, QueueTypeOK
  <1>2. rows' \in [Obs -> RowType]
    BY DEF IInv, TypeOK, BackoffElapses, LockAges, RowType
  <1>3. \A j \in Obs : rows'[j].status = rows[j].status /\ rows'[j].attempts = rows[j].attempts
    BY DEF IInv, TypeOK, BackoffElapses, LockAges, RowType
  <1>4. UNCHANGED <<duplicates, job, recorded, up, ingests, crashes>>
    BY DEF BackoffElapses, LockAges
  <1>5. TypeOK'
    BY <1>1, <1>2, <1>4 DEF IInv, TypeOK
  <1>6. SentWasRecorded' /\ AbsentIsFresh' /\ FailedIffExhausted'
    BY <1>3, <1>4 DEF IInv, SentWasRecorded, AbsentIsFresh, FailedIffExhausted
  <1>7. DueIsWaiting'
    BY <1>1, <1>3 DEF IInv, TypeOK, QueueTypeOK, DueIsWaiting, Waiting
  <1>8. ClaimIsExclusive'
    BY <1>1, <1>3, <1>4 DEF IInv, TypeOK, JobType, ClaimIsExclusive
  <1>9. WorksOnBatch' /\ FreshDelivery' /\ AnswerIsTrue' /\ ReadHasRoom'
    BY <1>4 DEF IInv, WorksOnBatch, FreshDelivery, AnswerIsTrue, ReadHasRoom
  <1> QED
    BY <1>5, <1>6, <1>7, <1>8, <1>9 DEF IInv

LEMMA ProcessInv == ASSUME IInv, Launch \/ Crash PROVE IInv'
  <1>1. job' = job \/ job' = Idle
    BY DEF Launch, Crash
  <1>2. UNCHANGED <<rows, due, before, recorded, ingests>>
    BY DEF Launch, Crash
  <1>3. duplicates' \subseteq Obs /\ up' \in BOOLEAN /\ crashes' \in 0..MaxCrashes
    <2>1. crashes' \in 0..MaxCrashes
      BY BoundAssumption DEF IInv, TypeOK, Launch, Crash
    <2> QED
      BY <2>1 DEF IInv, TypeOK, Launch, Crash
  <1>4. TypeOK'
    BY <1>1, <1>2, <1>3, IdleType DEF IInv, TypeOK, QueueTypeOK
  <1>5. SentWasRecorded' /\ AbsentIsFresh' /\ DueIsWaiting' /\ FailedIffExhausted'
    BY <1>2 DEF IInv, SentWasRecorded, AbsentIsFresh, DueIsWaiting, FailedIffExhausted
  <1>6. ClaimIsExclusive' /\ WorksOnBatch' /\ FreshDelivery' /\ AnswerIsTrue' /\ ReadHasRoom'
    BY <1>1, <1>2 DEF IInv, Idle, ClaimIsExclusive, WorksOnBatch, FreshDelivery, AnswerIsTrue, ReadHasRoom
  <1> QED
    BY <1>4, <1>5, <1>6 DEF IInv

LEMMA ClaimInv == ASSUME IInv, ClaimRows PROVE IInv'
  <1> DEFINE reopened == Reopened
             eligible == due \cup reopened
             earlier  == before \cup (due \X reopened)
  <1>1. PICK batch \in SUBSET eligible :
          /\ rows' = [k \in Obs |->
                        IF k \in batch
                          THEN [rows[k] EXCEPT !.status = "SENDING", !.stale = FALSE]
                        ELSE IF k \in reopened
                          THEN [rows[k] EXCEPT !.status = "RETRY", !.stale = FALSE]
                        ELSE rows[k]]
          /\ due' = eligible \ batch
          /\ before' = {p \in earlier : p[1] \notin batch /\ p[2] \notin batch}
          /\ job' = [pc |-> "deliver", cur |-> NoRow, batch |-> batch,
                     read |-> [k \in Obs |-> IF k \in batch THEN rows[k].attempts ELSE 0]]
    BY DEF ClaimRows
  <1>2. UNCHANGED <<duplicates, recorded, up, ingests, crashes>>
    BY DEF ClaimRows
  <1>3. \A k \in eligible : k \in Obs /\ rows[k].status \in Waiting \cup {"SENDING"}
    BY DEF IInv, TypeOK, QueueTypeOK, DueIsWaiting, Reopened
  <1>4. \A k \in eligible : rows[k].attempts \in 0..MaxAttempts /\ rows[k].attempts < MaxAttempts
    BY <1>3 DEF IInv, TypeOK, RowType, FailedIffExhausted, Waiting
  <1>5. \A k \in Obs : k \in reopened => k \in eligible
    OBVIOUS
  <1>6. earlier \subseteq Obs \X Obs
    BY DEF IInv, TypeOK, QueueTypeOK, Reopened
  <1> HIDE DEF eligible, earlier, reopened
  <1>7. rows' \in [Obs -> RowType]
    BY <1>1 DEF IInv, TypeOK, RowType, Statuses
  <1>8. job' \in JobType
    <2>1. batch \subseteq Obs
      BY <1>3
    <2>2. [k \in Obs |-> IF k \in batch THEN rows[k].attempts ELSE 0] \in [Obs -> 0..MaxAttempts]
      BY LimitAssumption DEF IInv, TypeOK, RowType
    <2> QED
      BY <1>1, <2>1, <2>2 DEF JobType
  <1>9. QueueTypeOK'
    BY <1>1, <1>3, <1>6 DEF QueueTypeOK
  <1>10. TypeOK'
    BY <1>2, <1>7, <1>8, <1>9 DEF IInv, TypeOK
  <1>11. \A k \in Obs : /\ k \notin eligible => rows'[k] = rows[k]
                        /\ rows'[k].attempts = rows[k].attempts
                        /\ k \in eligible => rows'[k].status \in Waiting \cup {"SENDING"}
    BY <1>1, <1>3, <1>5 DEF IInv, TypeOK, RowType, Waiting
  <1>12. SentWasRecorded' /\ AbsentIsFresh'
    BY <1>2, <1>3, <1>11 DEF IInv, SentWasRecorded, AbsentIsFresh, Waiting
  <1>13. FailedIffExhausted'
    BY <1>4, <1>11 DEF IInv, FailedIffExhausted, Waiting
  <1>14. DueIsWaiting'
    <2> SUFFICES ASSUME NEW k \in eligible, k \notin batch PROVE rows'[k].status \in Waiting
      BY <1>1 DEF DueIsWaiting
    <2>1. CASE k \in reopened
      BY <2>1, <1>1, <1>3 DEF IInv, TypeOK, RowType, Waiting
    <2>2. CASE k \notin reopened
      BY <2>2, <1>1, <1>3 DEF IInv, DueIsWaiting, eligible
    <2> QED
      BY <2>1, <2>2
  <1>15. ClaimIsExclusive'
    <2>1. \A k \in batch : k \in Obs /\ rows[k] \in RowType
      BY <1>3 DEF IInv, TypeOK
    <2>2. \A k \in batch : rows'[k].status = "SENDING" /\ k \notin due'
      BY <1>1, <2>1 DEF RowType
    <2> QED
      BY <1>1, <2>2 DEF ClaimIsExclusive
  <1>16. ReadHasRoom'
    BY <1>1, <1>3, <1>4 DEF ReadHasRoom
  <1>17. WorksOnBatch' /\ FreshDelivery' /\ AnswerIsTrue'
    BY <1>1 DEF WorksOnBatch, FreshDelivery, AnswerIsTrue
  <1> QED
    BY <1>10, <1>12, <1>13, <1>14, <1>15, <1>16, <1>17 DEF IInv

LEMMA DeliverInv == ASSUME IInv, NEW k \in Obs, Deliver(k) PROVE IInv'
  <1>1. /\ job.pc = "deliver" /\ k \in job.batch
        /\ \E pc \in {"accepted", "rejected", "error"} :
             Turn(k, pc) /\ (pc = "accepted" => k \in recorded')
    BY DEF Deliver, AuthorizationFails, Post
  <1>2. /\ job' \in JobType /\ job'.pc \in {"accepted", "rejected", "error"}
        /\ job'.cur = k /\ job'.batch = job.batch /\ job'.read = job.read
        /\ job'.pc = "accepted" => k \in recorded'
    BY <1>1, TurnType DEF IInv, TypeOK
  <1>3. recorded \subseteq recorded' /\ recorded' \subseteq Obs
    BY DEF IInv, TypeOK, Deliver, AuthorizationFails, Post
  <1>4. UNCHANGED <<rows, due, before, duplicates, up, ingests, crashes>>
    BY DEF Deliver, AuthorizationFails, Post
  <1>5. TypeOK'
    BY <1>2, <1>3, <1>4 DEF IInv, TypeOK, QueueTypeOK
  <1>6. SentWasRecorded' /\ AbsentIsFresh' /\ DueIsWaiting' /\ FailedIffExhausted'
    BY <1>3, <1>4 DEF IInv, SentWasRecorded, AbsentIsFresh, DueIsWaiting, FailedIffExhausted
  <1>7. WorksOnBatch' /\ FreshDelivery' /\ AnswerIsTrue' /\ ReadHasRoom'
    BY <1>1, <1>2 DEF IInv, WorksOnBatch, FreshDelivery, AnswerIsTrue, ReadHasRoom
  <1>8. ClaimIsExclusive'
    <2>1. job.cur \notin job.batch
      BY <1>1, ObsAssumption DEF IInv, TypeOK, JobType, FreshDelivery
    <2> QED
      BY <1>2, <1>4, <2>1 DEF IInv, ClaimIsExclusive
  <1> QED
    BY <1>5, <1>6, <1>7, <1>8 DEF IInv

LEMMA MarkDeliveredInv ==
  ASSUME IInv, NEW commit \in Commits, MarkDelivered(commit) PROVE IInv'
  <1> DEFINE k == job.cur
  <1>1. k \in Obs /\ k \in job.batch /\ k \in recorded
    BY DEF IInv, TypeOK, JobType, MarkDelivered, WorksOnBatch, AnswerIsTrue
  <1>2. UNCHANGED <<due, before, duplicates, recorded, up, ingests, crashes>>
    BY DEF MarkDelivered
  <1>3. NextRecord \/ Turn(k, "error")
    BY DEF MarkDelivered
  <1>4. rows' \in [Obs -> RowType]
    BY <1>1 DEF IInv, TypeOK, MarkDelivered, SetDelivered, RowType, Statuses
  <1>5. \A j \in Obs : \/ rows'[j] = rows[j]
                       \/ /\ j = k /\ rows[k].status = "SENDING" /\ rows'[k].status = "SENT"
    BY <1>1 DEF IInv, TypeOK, MarkDelivered, SetDelivered, RowType
  <1> HIDE DEF k
  <1>6. JobStep(k)
    BY <1>1, <1>3, NextRecordType, TurnType DEF k, IInv, TypeOK, JobStep
  <1>7. TypeOK'
    BY <1>2, <1>4, <1>6 DEF IInv, TypeOK, QueueTypeOK, JobStep
  <1>8. SentWasRecorded' /\ AbsentIsFresh' /\ DueIsWaiting' /\ FailedIffExhausted'
    BY <1>1, <1>2, <1>5 DEF IInv, TypeOK, QueueTypeOK, Waiting, SentWasRecorded,
                            AbsentIsFresh, DueIsWaiting, FailedIffExhausted
  <1>9. WorksOnBatch' /\ FreshDelivery' /\ AnswerIsTrue' /\ ReadHasRoom'
    BY <1>1, <1>6 DEF IInv, JobStep, WorksOnBatch, FreshDelivery, AnswerIsTrue, ReadHasRoom
  <1>10. ClaimIsExclusive'
    BY <1>2, <1>5, <1>6 DEF k, IInv, TypeOK, JobType, JobStep, ClaimIsExclusive
  <1> QED
    BY <1>7, <1>8, <1>9, <1>10 DEF IInv

LEMMA MarkFailureInv ==
  ASSUME IInv, NEW commit \in Commits, MarkFailure(commit) PROVE IInv'
  <1> DEFINE k == job.cur
             attempts == job.read[k] + 1
             failed == [status |-> IF attempts >= MaxAttempts THEN "FAILED" ELSE "RETRY",
                        attempts |-> attempts, stale |-> FALSE]
  <1>1. k \in Obs /\ k \in job.batch
    BY DEF IInv, TypeOK, JobType, MarkFailure, WorksOnBatch
  <1>2. UNCHANGED <<due, before, duplicates, recorded, up, ingests, crashes>>
    BY DEF MarkFailure
  <1>3. NextRecord \/ Turn(k, "error") \/ job' = Idle
    BY DEF MarkFailure
  <1>4. attempts \in 1..MaxAttempts
    BY <1>1, LimitAssumption DEF IInv, TypeOK, JobType, ReadHasRoom
  <1>5. failed \in RowType
    BY <1>4, LimitAssumption DEF RowType, Statuses
  <1>6. rows' = rows \/ (rows[k].status = "SENDING" /\ rows' = [rows EXCEPT ![k] = failed])
    BY DEF MarkFailure, SetFailure
  <1>7. failed.status = (IF attempts >= MaxAttempts THEN "FAILED" ELSE "RETRY")
        /\ failed.attempts = attempts
    OBVIOUS
  <1> HIDE DEF k, failed, attempts
  <1>8. rows' \in [Obs -> RowType]
    BY <1>1, <1>5, <1>6 DEF IInv, TypeOK
  <1>9. \A j \in Obs : \/ rows'[j] = rows[j]
                       \/ j = k /\ rows[k].status = "SENDING" /\ rows'[k] = failed
    BY <1>1, <1>6 DEF IInv, TypeOK
  <1>10. JobStep(k)
    <2>1. CASE NextRecord
      BY <1>1, <2>1, NextRecordType DEF k, IInv, TypeOK, JobStep
    <2>2. CASE Turn(k, "error")
      BY <1>1, <2>2, TurnType DEF k, IInv, TypeOK, JobStep
    <2>3. CASE job' = Idle
      BY <1>1, <2>3, IdleType DEF JobStep, Idle
    <2> QED
      BY <1>3, <2>1, <2>2, <2>3
  <1>11. TypeOK'
    BY <1>2, <1>8, <1>10 DEF IInv, TypeOK, QueueTypeOK, JobStep
  <1>12. SentWasRecorded' /\ AbsentIsFresh' /\ DueIsWaiting'
    BY <1>2, <1>7, <1>9 DEF IInv, TypeOK, QueueTypeOK, Waiting, SentWasRecorded,
                            AbsentIsFresh, DueIsWaiting
  <1>13. FailedIffExhausted'
    BY <1>4, <1>7, <1>9, LimitAssumption DEF IInv, Waiting, FailedIffExhausted
  <1>14. WorksOnBatch' /\ FreshDelivery' /\ AnswerIsTrue' /\ ReadHasRoom'
    BY <1>1, <1>10 DEF IInv, JobStep, WorksOnBatch, FreshDelivery, AnswerIsTrue, ReadHasRoom
  <1>15. ClaimIsExclusive'
    BY <1>2, <1>9, <1>10 DEF k, IInv, TypeOK, JobType, JobStep, ClaimIsExclusive
  <1> QED
    BY <1>11, <1>12, <1>13, <1>14, <1>15 DEF IInv

-----------------------------------------------------------------------------
LEMMA NextInv == IInv /\ [Next]_vars => IInv'
  <1> SUFFICES ASSUME IInv, [Next]_vars PROVE IInv'
    OBVIOUS
  <1>1. CASE Launch \/ Crash
    BY <1>1, ProcessInv
  <1>2. CASE ClaimRows
    BY <1>2, ClaimInv
  <1>3. ASSUME NEW k \in Obs,
               Ingest(k) \/ RecoverDuplicate(k) \/ BackoffElapses(k) \/ LockAges(k) \/ Deliver(k)
        PROVE  IInv'
    BY <1>3, IngestInv, RecoverInv, ClockInv, DeliverInv
  <1>4. ASSUME NEW commit \in Commits, MarkDelivered(commit) \/ MarkFailure(commit)
        PROVE  IInv'
    BY <1>4, MarkDeliveredInv, MarkFailureInv
  <1>5. CASE UNCHANGED vars
    BY <1>5 DEF vars, IInv, TypeOK, QueueTypeOK, SentWasRecorded, ClaimIsExclusive,
                FailedIffExhausted, WorksOnBatch, FreshDelivery, AnswerIsTrue, DueIsWaiting,
                ReadHasRoom, AbsentIsFresh
  <1> QED
    BY <1>1, <1>2, <1>3, <1>4, <1>5 DEF Next

\* The inductive invariant holds in every reachable state of the worker.
THEOREM Invariance == Spec => []IInv
  BY InitInv, NextInv, PTL DEF Spec

\* Type correctness of the outbox, the job and the process.
THEOREM TypeCorrect == Spec => []TypeOK
  <1>1. IInv => TypeOK
    BY DEF IInv
  <1> QED
    BY <1>1, Invariance, PTL

\* For any batch size, retry budget and number of crashes a row marked SENT was
\* recorded by the audit backend before (deliver_session_observation_outbox).
THEOREM SentCorrect == Spec => []SentWasRecorded
  <1>1. IInv => SentWasRecorded
    BY DEF IInv
  <1> QED
    BY <1>1, Invariance, PTL

\* No row of a running batch becomes claimable again before its turn.
THEOREM ClaimCorrect == Spec => []ClaimIsExclusive
  <1>1. IInv => ClaimIsExclusive
    BY DEF IInv
  <1> QED
    BY <1>1, Invariance, PTL

\* A row is given up exactly when its retry budget is spent.
THEOREM BudgetCorrect == Spec => []FailedIffExhausted
  <1>1. IInv => FailedIffExhausted
    BY DEF IInv
  <1> QED
    BY <1>1, Invariance, PTL

-----------------------------------------------------------------------------
(* Action property and refinement.                                         *)

\* How one step may change a row: what Ingest, RecoverDuplicate, the lock's
\* age, a claim and the two marks do to it.
RowStep(k) ==
  \/ rows'[k] = rows[k]
  \/ rows[k].status = "ABSENT" /\ rows'[k].status = "PENDING"
  \/ rows[k].status = "FAILED" /\ rows'[k].status = "RETRY" /\ k \in duplicates \ duplicates'
  \/ rows[k].status \in Waiting \cup {"SENDING"} /\ rows'[k].status \in Waiting \cup {"SENDING"}
  \/ rows[k].status = "SENDING" /\ rows'[k].status = "SENT" /\ k \in recorded
  \/ rows[k].status = "SENDING" /\ rows'[k].status = "FAILED"

\* A step that touches a row touches one row, except the claim, which leaves
\* the abstract phase of every row alone.
RowsStep ==
  \/ \A k \in Obs : rows'[k] = rows[k]
  \/ /\ recorded' = recorded
     /\ \A k \in Obs : \/ rows'[k] = rows[k]
                       \/ /\ rows[k].status \in Waiting \cup {"SENDING"}
                          /\ rows'[k].status \in Waiting \cup {"SENDING"}
  \/ /\ recorded' = recorded
     /\ \E k \in Obs : RowStep(k) /\ \A j \in Obs \ {k} : rows'[j] = rows[j]

LEMMA RowsChange == ASSUME IInv, [Next]_vars PROVE RowsStep
  <1>1. CASE Launch \/ Crash \/ UNCHANGED vars
    BY <1>1 DEF Launch, Crash, vars, RowsStep
  <1>2. CASE ClaimRows
    <2> DEFINE reopened == Reopened
               eligible == due \cup reopened
    <2>1. PICK batch \in SUBSET eligible :
            rows' = [k \in Obs |->
                       IF k \in batch
                         THEN [rows[k] EXCEPT !.status = "SENDING", !.stale = FALSE]
                       ELSE IF k \in reopened
                         THEN [rows[k] EXCEPT !.status = "RETRY", !.stale = FALSE]
                       ELSE rows[k]]
      BY <1>2 DEF ClaimRows
    <2>2. recorded' = recorded
      BY <1>2 DEF ClaimRows
    <2>3. \A k \in eligible : k \in Obs /\ rows[k].status \in Waiting \cup {"SENDING"}
      BY DEF IInv, TypeOK, QueueTypeOK, DueIsWaiting, Reopened
    <2>4. \A k \in Obs : \/ rows'[k] = rows[k]
                         \/ k \in eligible /\ rows'[k].status \in Waiting \cup {"SENDING"}
      BY <2>1 DEF IInv, TypeOK, RowType, Waiting
    <2> QED
      BY <2>2, <2>3, <2>4 DEF RowsStep
  <1>3. ASSUME NEW k \in Obs, Ingest(k) PROVE RowsStep
    BY <1>3 DEF IInv, TypeOK, RowType, Ingest, RowsStep, RowStep
  <1>4. ASSUME NEW k \in Obs, RecoverDuplicate(k) PROVE RowsStep
    <2>1. CASE rows' = rows
      BY <2>1 DEF RowsStep
    <2>2. CASE rows[k].status = "FAILED"
      <3>1. rows' = [rows EXCEPT ![k] = [status |-> "RETRY", attempts |-> 0, stale |-> FALSE]]
        BY <1>4, <2>2 DEF RecoverDuplicate
      <3>2. rows'[k].status = "RETRY" /\ \A j \in Obs \ {k} : rows'[j] = rows[j]
        BY <3>1 DEF IInv, TypeOK
      <3>3. recorded' = recorded /\ k \in duplicates \ duplicates'
        BY <1>4 DEF RecoverDuplicate
      <3> QED
        BY <2>2, <3>2, <3>3 DEF RowsStep, RowStep
    <2> QED
      BY <1>4, <2>1, <2>2 DEF RecoverDuplicate
  <1>5. ASSUME NEW k \in Obs, BackoffElapses(k) \/ LockAges(k) PROVE RowsStep
    BY <1>5 DEF IInv, TypeOK, RowType, BackoffElapses, LockAges, RowsStep, RowStep, Waiting
  <1>6. ASSUME NEW k \in Obs, Deliver(k) PROVE RowsStep
    BY <1>6 DEF Deliver, AuthorizationFails, Post, RowsStep
  <1>7. ASSUME NEW commit \in Commits, MarkDelivered(commit) PROVE RowsStep
    <2>1. job.cur \in Obs /\ job.cur \in recorded
      BY <1>7 DEF IInv, TypeOK, JobType, MarkDelivered, WorksOnBatch, AnswerIsTrue
    <2>2. \/ rows' = rows
          \/ /\ rows[job.cur].status = "SENDING"
             /\ rows' = [rows EXCEPT ![job.cur].status = "SENT", ![job.cur].stale = FALSE]
      BY <1>7 DEF MarkDelivered, SetDelivered
    <2>3. recorded' = recorded
      BY <1>7 DEF MarkDelivered
    <2>4. ASSUME rows' # rows
          PROVE  rows'[job.cur].status = "SENT" /\ \A j \in Obs \ {job.cur} : rows'[j] = rows[j]
      BY <2>1, <2>2, <2>4 DEF IInv, TypeOK, RowType
    <2> QED
      BY <2>1, <2>2, <2>3, <2>4 DEF RowsStep, RowStep
  <1>8. ASSUME NEW commit \in Commits, MarkFailure(commit) PROVE RowsStep
    <2>1. job.cur \in Obs
      BY <1>8 DEF IInv, TypeOK, JobType, MarkFailure, WorksOnBatch
    <2>2. \/ rows' = rows
          \/ /\ rows[job.cur].status = "SENDING"
             /\ \E r : r.status \in {"FAILED", "RETRY"} /\ rows' = [rows EXCEPT ![job.cur] = r]
      BY <1>8 DEF MarkFailure, SetFailure
    <2>3. recorded' = recorded
      BY <1>8 DEF MarkFailure
    <2>4. ASSUME rows' # rows
          PROVE  /\ rows[job.cur].status = "SENDING"
                 /\ rows'[job.cur].status \in {"FAILED", "RETRY"}
                 /\ \A j \in Obs \ {job.cur} : rows'[j] = rows[j]
      BY <2>1, <2>2, <2>4 DEF IInv, TypeOK
    <2> QED
      BY <2>1, <2>3, <2>4 DEF RowsStep, RowStep, Waiting
  <1> QED
    BY <1>1, <1>2, <1>3, <1>4, <1>5, <1>6, <1>7, <1>8 DEF Next

\* SENT is final and FAILED is left only by a repeated observation, in every
\* step of every thread.
THEOREM TerminalCorrect == Spec => TerminalIsFinal
  <1>1. IInv /\ [Next]_vars =>
          [\A k \in Obs :
             /\ rows[k].status = "SENT" => rows'[k] = rows[k]
             /\ rows[k].status = "FAILED" /\ rows'[k] # rows[k] => k \in duplicates \ duplicates']_vars
    BY RowsChange DEF RowsStep, RowStep, Waiting
  <1> QED
    BY <1>1, Invariance, PTL DEF Spec, TerminalIsFinal

LEMMA RecordStep ==
  ASSUME IInv, [Next]_vars, recorded' # recorded
  PROVE  rows' = rows /\ \E k \in Obs : rows[k].status = "SENDING" /\ recorded' = recorded \cup {k}
  <1>1. PICK k \in Obs : Post(k)
    BY DEF Next, vars, Launch, Crash, ClaimRows, Ingest, RecoverDuplicate, BackoffElapses,
           LockAges, Deliver, AuthorizationFails, MarkDelivered, MarkFailure
  <1>2. k # job.cur
    BY <1>1, ObsAssumption DEF IInv, FreshDelivery, Post
  <1> QED
    BY <1>1, <1>2 DEF IInv, ClaimIsExclusive, Post

\* The outbox, with its batches, locks, retries and crashes, implements the
\* delivery contract of ObservationDelivery.
THEOREM Implements == Spec => ImplementsDelivery
  <1>1. Init => Delivery!Init
    BY DEF Init, Delivery!Init, phase, PhaseOf
  <1>2. IInv /\ [Next]_vars => [Delivery!Next]_<<phase, recorded>>
    <2> SUFFICES ASSUME IInv, [Next]_vars
                 PROVE  Delivery!Next \/ UNCHANGED <<phase, recorded>>
      OBVIOUS
    <2> USE DEF phase
    <2>1. CASE recorded' # recorded
      <3>1. PICK k \in Obs : rows' = rows /\ rows[k].status = "SENDING" /\ recorded' = recorded \cup {k}
        BY <2>1, RecordStep
      <3>2. Delivery!Record(k)
        BY <3>1 DEF Delivery!Record, PhaseOf
      <3> QED
        BY <3>2 DEF Delivery!Next
    <2>2. CASE recorded' = recorded /\ \A k \in Obs : PhaseOf(rows'[k].status) = PhaseOf(rows[k].status)
      BY <2>2
    <2>3. ASSUME recorded' = recorded,
                 NEW k \in Obs, PhaseOf(rows'[k].status) # PhaseOf(rows[k].status)
          PROVE  Delivery!Next
      <3>1. RowStep(k) /\ \A j \in Obs \ {k} : rows'[j] = rows[j]
        BY <2>3, RowsChange DEF RowsStep, PhaseOf, Waiting
      <3>2. phase' = [phase EXCEPT ![k] = PhaseOf(rows'[k].status)]
        BY <3>1
      <3>3. Delivery!Accept(k) \/ Delivery!Deliver(k) \/ Delivery!GiveUp(k)
        BY <2>3, <3>1, <3>2 DEF RowStep, PhaseOf, Waiting,
           Delivery!Accept, Delivery!Deliver, Delivery!GiveUp
      <3> QED
        BY <3>3 DEF Delivery!Next
    <2> QED
      BY <2>1, <2>2, <2>3
  <1> QED
    BY <1>1, <1>2, Invariance, PTL DEF Spec, ImplementsDelivery, Delivery!Spec
=============================================================================
