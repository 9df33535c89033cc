----------------------- MODULE TokenRevocation_proofs -----------------------
(***************************************************************************)
(* Proofs about the Guacamole tokens for every set of tokens and users,    *)
(* attempt limit and bound.                                                *)
(***************************************************************************)
EXTENDS TokenRevocation, TLAPS

\* A row says REVOKED only of a token that Guacamole no longer accepts, and
\* so does the job before it writes that.
RevokedIsDead ==
  /\ \A t \in Tokens : rows[t].status = "REVOKED" => guac[t] = "dead"
  /\ job.pc = "revoked" => guac[job.cur] = "dead"

\* A token is handed out after its row was written.
ExposedHasRow == \A t \in exposed : rows[t].status # "ABSENT"

\* A row that waits has an attempt left.
WaitingHasAttempts == \A t \in Tokens : rows[t].status \in Waiting => rows[t].attempts < MaxAttempts

\* A row that was never written has made no attempt.
AbsentIsFresh == \A t \in Tokens : rows[t].status = "ABSENT" => rows[t].attempts = 0

\* The job works on a token of its own at a time, and the rows it has yet to
\* revoke still wait, after the end of their reservation.
JobOK ==
  /\ job.pc \in {"mark", "revoked", "failed"} => job.cur \in Tokens
  /\ job.pc \in {"revoked", "failed"} => job.cur \notin job.todo
  /\ job.pc \in {"revoke", "revoked", "failed"} =>
       \A t \in job.todo : rows[t].status \in Waiting /\ Over(t)

\* A tunnel needs a token that is alive, and leaves a trace in the history.
TunnelsOK == \A t \in tunnels : guac[t] = "alive" /\ \E r \in history : r.token = t

\* Users seen as active have connected.
ActiveHaveHistory == \A u \in job.active : \E r \in history : UserOf[r.token] = u

IInv == /\ TypeOK
        /\ RevokedIsDead
        /\ ExposedHasRow
        /\ WaitingHasAttempts
        /\ AbsentIsFresh
        /\ JobOK
        /\ TunnelsOK
        /\ ActiveHaveHistory
        /\ ObservedWasUsed

-----------------------------------------------------------------------------
(* Lemmas about what the actions share.                                    *)

LEMMA InitInv == Init => IInv
  BY TokenAssumption, LimitAssumption, BoundAssumption
  DEF Init, IInv, TypeOK, RowType, JobType, Statuses, Waiting, Idle, RevokedIsDead, ExposedHasRow,
      WaitingHasAttempts, AbsentIsFresh, JobOK, TunnelsOK, ActiveHaveHistory, ObservedWasUsed

LEMMA IdleType == Idle \in JobType
  BY LimitAssumption DEF Idle, JobType

\* Enqueueing touches one row, which had no row or had failed; it waits now,
\* with attempts left.
LEMMA EnqueuedRow ==
  ASSUME TypeOK, AbsentIsFresh, NEW t \in Tokens, Enqueued(t)
  PROVE  /\ rows' \in [Tokens -> RowType]
         /\ rows'[t].status # "ABSENT"
         /\ \A k \in Tokens :
              \/ rows'[k] = rows[k]
              \/ rows[k].status \notin Waiting /\ rows'[k].status \in Waiting /\ rows'[k].attempts < MaxAttempts
  <1>1. CASE rows[t].status = "ABSENT"
    <2>1. rows' = [rows EXCEPT ![t] = [@ EXCEPT !.status = "PENDING", !.due = TRUE]]
      BY <1>1 DEF Enqueued
    <2>2. [rows[t] EXCEPT !.status = "PENDING", !.due = TRUE] \in RowType
      BY DEF TypeOK, RowType, Statuses
    <2>3. rows[t].attempts < MaxAttempts
      BY <1>1, LimitAssumption DEF AbsentIsFresh
    <2> QED BY <1>1, <2>1, <2>2, <2>3 DEF TypeOK, RowType, Statuses, Waiting
  <1>2. CASE rows[t].status = "FAILED"
    <2>1. rows' = [rows EXCEPT ![t] = [@ EXCEPT !.status = "RETRY", !.attempts = 0, !.due = TRUE]]
      BY <1>2 DEF Enqueued
    <2>2. [rows[t] EXCEPT !.status = "RETRY", !.attempts = 0, !.due = TRUE] \in RowType
      <3>1. rows[t] \in RowType /\ 0 \in 0..MaxAttempts
        BY LimitAssumption DEF TypeOK
      <3> QED BY <3>1 DEF RowType, Statuses
    <2> QED BY <1>2, <2>1, <2>2, LimitAssumption DEF TypeOK, RowType, Waiting
  <1>3. CASE rows[t].status \notin {"ABSENT", "FAILED"}
    <2>1. rows' = rows
      BY <1>3 DEF Enqueued, TypeOK
    <2> QED BY <1>3, <2>1 DEF TypeOK, RowType
  <1> QED BY <1>1, <1>2, <1>3

\* Deleting a token touches that token only, and ends its tunnels with it.
LEMMA DeleteEffect ==
  ASSUME TypeOK, NEW t \in Tokens, NEW answer \in Answers, Delete(t, answer)
  PROVE  /\ guac' \in [Tokens -> {"none", "alive", "dead"}]
         /\ \A k \in Tokens : guac'[k] = guac[k] \/ (k = t /\ guac'[k] = "dead")
         /\ tunnels' \subseteq tunnels
         /\ \A k \in tunnels' : guac'[k] = guac[k]
         /\ answer # "error" => guac'[t] = "dead"
  BY DEF Delete, Answers, TypeOK

\* Steps of the edge and of Guacamole that leave the worker alone.
LEMMA WorldInv ==
  ASSUME IInv, TypeOK', UNCHANGED <<rows, job, outbox, exposed>>,
         history \subseteq history',
         \A k \in Tokens : guac[k] = "dead" => guac'[k] = "dead",
         \A k \in Tokens : clock[UserOf[k]] # "valid" => clock'[UserOf[k]] # "valid",
         TunnelsOK'
  PROVE  IInv'
  BY DEF IInv, RevokedIsDead, ExposedHasRow, WaitingHasAttempts, AbsentIsFresh, JobOK, ActiveHaveHistory,
         ObservedWasUsed, Over, TypeOK, JobType

\* Steps that only give rows attempts left and a status that waits.
LEMMA RowInv ==
  ASSUME IInv, TypeOK', UNCHANGED <<world, job, outbox>>, rows' \in [Tokens -> RowType],
         exposed' \subseteq Tokens,
         \A k \in exposed' : k \in exposed \/ rows'[k].status # "ABSENT",
         \A k \in Tokens :
           \/ rows'[k].status = rows[k].status /\ rows'[k].attempts = rows[k].attempts
           \/ rows[k].status \notin Waiting /\ rows'[k].status \in Waiting /\ rows'[k].attempts < MaxAttempts
  PROVE  IInv'
  BY DEF IInv, world, RevokedIsDead, ExposedHasRow, WaitingHasAttempts, AbsentIsFresh, JobOK, ActiveHaveHistory,
         ObservedWasUsed, TunnelsOK, Over, TypeOK, JobType, RowType, Waiting

-----------------------------------------------------------------------------
(* The invariant is inductive.                                             *)

LEMMA TimeInv ==
  ASSUME IInv, NEW u \in Users, Expire(u) \/ Age(u)
  PROVE  IInv'
  <1> USE DEF IInv
  <1>1. TypeOK'
    BY DEF Expire, Age, edge, worker, TypeOK
  <1>2. UNCHANGED <<guac, tunnels, history, rows, job, outbox, exposed>>
    BY DEF Expire, Age, edge, worker
  <1>3. \A k \in Tokens : clock[UserOf[k]] # "valid" => clock'[UserOf[k]] # "valid"
    BY TokenAssumption DEF Expire, Age, TypeOK
  <1>4. TunnelsOK'
    BY <1>2 DEF TunnelsOK
  <1> QED BY <1>1, <1>2, <1>3, <1>4, WorldInv DEF TypeOK

LEMMA BackoffInv == ASSUME IInv, NEW t \in Tokens, BackoffElapses(t) PROVE IInv'
  <1>1. /\ rows' \in [Tokens -> RowType]
        /\ \A k \in Tokens : rows'[k].status = rows[k].status /\ rows'[k].attempts = rows[k].attempts
    BY DEF IInv, BackoffElapses, TypeOK, RowType
  <1>2. TypeOK'
    BY <1>1 DEF IInv, BackoffElapses, TypeOK, RowType, world, edge
  <1> QED BY <1>1, <1>2, RowInv DEF BackoffElapses, IInv, TypeOK, world, edge

LEMMA ExchangeInv == ASSUME IInv, NEW t \in Tokens, Exchange(t) PROVE IInv'
  <1>1. TypeOK' /\ TunnelsOK'
    BY DEF IInv, TypeOK, TunnelsOK, Exchange, Refuse, worker
  <1> QED BY <1>1, WorldInv DEF Exchange, worker, IInv, TypeOK

LEMMA RegisterInv == ASSUME IInv, NEW t \in Tokens, Register(t) PROVE IInv'
  <1> USE DEF IInv
  <1>1. TypeOK'
    BY EnqueuedRow DEF Register, TypeOK, RowType, world
  <1> QED BY <1>1, EnqueuedRow, RowInv DEF Register, TypeOK

LEMMA RegisterFailsInv == ASSUME IInv, NEW t \in Tokens, RegisterFails(t) PROVE IInv'
  <1> USE DEF IInv
  <1>1. /\ rows' \in [Tokens -> RowType]
        /\ \A k \in Tokens :
              \/ rows'[k] = rows[k]
              \/ rows[k].status \notin Waiting /\ rows'[k].status \in Waiting /\ rows'[k].attempts < MaxAttempts
    BY EnqueuedRow DEF RegisterFails, TypeOK, RowType
  <1>2. TypeOK'
    BY <1>1 DEF RegisterFails, Refuse, TypeOK, RowType, world
  <1> QED BY <1>1, <1>2, RowInv DEF RegisterFails, TypeOK

LEMMA TunnelInv ==
  ASSUME IInv, NEW t \in Tokens, OpenTunnel(t) \/ CloseTunnel(t) \/ GuardClose(t) \/ Forget(t)
  PROVE  IInv'
  <1> USE DEF IInv
  <1>1. CASE OpenTunnel(t)
    <2> DEFINE r == [token |-> t, inTime |-> ~Over(t)]
    <2>1. r \in [token : Tokens, inTime : BOOLEAN] /\ r.token = t
      BY DEF Over
    <2>2. history' = history \cup {r} /\ r \in history'
      BY <1>1 DEF OpenTunnel
    <2>3. TypeOK'
      BY <1>1, <2>1, <2>2 DEF OpenTunnel, TypeOK, edge, worker
    <2>4. TunnelsOK'
      BY <1>1, <2>1, <2>2 DEF OpenTunnel, TunnelsOK
    <2> QED BY <1>1, <2>2, <2>3, <2>4, WorldInv DEF OpenTunnel, edge, worker, TypeOK
  <1>2. CASE CloseTunnel(t) \/ GuardClose(t) \/ Forget(t)
    <2>1. TypeOK' /\ TunnelsOK'
      BY <1>2 DEF CloseTunnel, GuardClose, Forget, TypeOK, TunnelsOK, edge, worker
    <2> QED BY <1>2, <2>1, WorldInv DEF CloseTunnel, GuardClose, Forget, edge, worker, TypeOK
  <1> QED BY <1>1, <1>2

LEMMA GuardInv ==
  ASSUME IInv, \/ EdgeRestart
               \/ \E t \in Tokens, answer \in Answers : GuardRevoke(t, answer)
  PROVE  IInv'
  <1> USE DEF IInv
  <1>1. CASE EdgeRestart
    <2>1. TypeOK' /\ TunnelsOK'
      BY <1>1, BoundAssumption DEF EdgeRestart, TypeOK, TunnelsOK, worker
    <2> QED BY <1>1, <2>1, WorldInv DEF EdgeRestart, worker, TypeOK
  <1>2. ASSUME NEW t \in Tokens, NEW answer \in Answers, GuardRevoke(t, answer) PROVE IInv'
    <2>1. Delete(t, answer)
      BY <1>2 DEF GuardRevoke
    <2>2. TypeOK' /\ TunnelsOK'
      BY <1>2, <2>1, DeleteEffect DEF GuardRevoke, TypeOK, TunnelsOK, worker
    <2> QED BY <1>2, <2>1, <2>2, DeleteEffect, WorldInv DEF GuardRevoke, worker
  <1> QED BY <1>1, <1>2

LEMMA ProcessInv == ASSUME IInv, StartJob \/ Crash \/ Launch PROVE IInv'
  <1> USE DEF IInv
  <1>1. CASE StartJob
    <2>1. TypeOK'
      <3>1. {UserOf[t] : t \in tunnels} \subseteq Users /\ Reconcilable \subseteq Tokens
        BY TokenAssumption DEF TypeOK, Reconcilable
      <3>2. job' \in JobType
        BY <1>1, <3>1, IdleType DEF StartJob, JobType
      <3> QED BY <1>1, <3>2 DEF StartJob, TypeOK, world, edge
    <2>2. ActiveHaveHistory'
      BY <1>1 DEF StartJob, Idle, ActiveHaveHistory, TunnelsOK, world
    <2> QED BY <1>1, <2>1, <2>2 DEF StartJob, Idle, RevokedIsDead, ExposedHasRow, WaitingHasAttempts, AbsentIsFresh,
              JobOK, TunnelsOK, ObservedWasUsed, world, edge
  <1>2. CASE Crash \/ Launch
    <2>1. crashes' \in 0..MaxCrashes /\ job' \in JobType
      BY <1>2, BoundAssumption, IdleType DEF Crash, Launch, TypeOK
    <2>2. TypeOK'
      BY <1>2, <2>1 DEF Crash, Launch, TypeOK, world, edge
    <2> QED BY <1>2, <2>2 DEF Crash, Launch, Idle, RevokedIsDead, ExposedHasRow, WaitingHasAttempts, AbsentIsFresh,
              JobOK, TunnelsOK, ActiveHaveHistory, ObservedWasUsed, Over, world, edge
  <1> QED BY <1>1, <1>2

LEMMA ReconcileInv == ASSUME IInv, NEW t \in Tokens, Reconcile(t) PROVE IInv'
  <1> USE DEF IInv
  <1>1. /\ UNCHANGED <<world, edge, rows, up, crashes>>
        /\ job'.pc \in {"reconcile", "mark"} /\ job'.active = job.active
        /\ job'.pc = "mark" => job'.cur \in Tokens
    BY DEF Reconcile, TypeOK, JobType
  <1>2. TypeOK'
    <2>1. job' \in JobType /\ outbox' \subseteq Tokens
      BY DEF Reconcile, TypeOK, JobType
    <2> QED BY <1>1, <2>1 DEF TypeOK, world, edge
  <1>3. ASSUME outbox' = outbox \cup {t},
               \E historical \in Historical(t) : historical \/ UserOf[t] \in job.active
        PROVE  \E r \in history : UserOf[r.token] = UserOf[t]
    BY <1>3 DEF Historical, InTime, ActiveHaveHistory
  <1>4. ObservedWasUsed'
    BY <1>1, <1>3 DEF Reconcile, ObservedWasUsed, world
  <1> QED BY <1>1, <1>2, <1>4 DEF RevokedIsDead, ExposedHasRow, WaitingHasAttempts, AbsentIsFresh, JobOK, TunnelsOK,
            ActiveHaveHistory, world, edge

LEMMA ObservedInv == ASSUME IInv, NEW saved \in BOOLEAN, MarkObserved(saved) PROVE IInv'
  <1> USE DEF IInv
  <1>1. /\ UNCHANGED <<world, edge, outbox, up, crashes>>
        /\ job'.pc = "reconcile" /\ job'.active = job.active
        /\ rows' \in [Tokens -> RowType]
        /\ \A k \in Tokens : rows'[k].status = rows[k].status /\ rows'[k].attempts = rows[k].attempts
    <2>1. rows' = rows \/ rows' = [rows EXCEPT ![job.cur].observed = TRUE]
      BY DEF MarkObserved
    <2>2. job.cur \in Tokens
      BY DEF MarkObserved, JobOK
    <2>3. job'.pc = "reconcile" /\ job'.active = job.active
      BY DEF MarkObserved, TypeOK, JobType
    <2>4. UNCHANGED <<world, edge, outbox, up, crashes>>
      BY DEF MarkObserved
    <2>5. [rows[job.cur] EXCEPT !.observed = TRUE] \in RowType
      BY <2>2 DEF TypeOK, RowType
    <2> QED BY <2>1, <2>2, <2>3, <2>4, <2>5 DEF TypeOK, RowType
  <1>2. TypeOK'
    <2>1. job' \in JobType
      BY DEF MarkObserved, TypeOK, JobType
    <2> QED BY <1>1, <2>1 DEF TypeOK, world, edge
  <1> QED BY <1>1, <1>2 DEF RevokedIsDead, ExposedHasRow, WaitingHasAttempts, AbsentIsFresh, JobOK, TunnelsOK,
            ActiveHaveHistory, ObservedWasUsed, TypeOK, world, edge

LEMMA ReadInv == ASSUME IInv, ReadRevocable PROVE IInv'
  <1> USE DEF IInv
  <1>1. TypeOK'
    <2>1. job' \in JobType
      BY IdleType DEF ReadRevocable, Revocable, JobType
    <2> QED BY <2>1 DEF ReadRevocable, TypeOK, world, edge
  <1> QED BY <1>1 DEF ReadRevocable, Idle, Revocable, RevokedIsDead, ExposedHasRow, WaitingHasAttempts, AbsentIsFresh,
            JobOK, TunnelsOK, ActiveHaveHistory, ObservedWasUsed, Over, world, edge

LEMMA RevokeInv ==
  ASSUME IInv, NEW t \in Tokens, NEW answer \in Answers, Revoke(t, answer)
  PROVE  IInv'
  <1> USE DEF IInv
  <1>1. /\ UNCHANGED <<clock, history, edge, rows, outbox, up, crashes>>
        /\ Delete(t, answer) /\ t \in job.todo /\ job.pc = "revoke"
        /\ job' = [job EXCEPT !.pc = IF answer = "error" THEN "failed" ELSE "revoked", !.cur = t,
                              !.todo = @ \ {t}, !.attempts = rows[t].attempts + 1]
    BY DEF Revoke, Work
  <1>2. rows[t].attempts + 1 \in 0..MaxAttempts
    BY <1>1, LimitAssumption DEF JobOK, WaitingHasAttempts, TypeOK, RowType
  <1>3. TypeOK'
    <2>1. job' \in JobType
      BY <1>1, <1>2 DEF TypeOK, JobType
    <2> QED BY <1>1, <2>1, DeleteEffect DEF TypeOK, edge
  <1>4. RevokedIsDead' /\ TunnelsOK'
    BY <1>1, <1>3, DeleteEffect DEF RevokedIsDead, TunnelsOK, TypeOK
  <1>5. JobOK'
    BY <1>1 DEF JobOK, Over, TypeOK
  <1> QED BY <1>1, <1>3, <1>4, <1>5 DEF ExposedHasRow, WaitingHasAttempts, AbsentIsFresh, ActiveHaveHistory,
            ObservedWasUsed, edge, TypeOK

\* After the mark of a row the job goes on with what is left, or ends.
LEMMA NextRowJob ==
  ASSUME IInv, job.pc \in {"revoked", "failed"},
         \/ NextRow
         \/ job' = Idle
         \/ job' = [job EXCEPT !.pc = "failed"]
  PROVE  /\ job'.pc \in {"idle", "revoke", "failed"} /\ job'.todo \subseteq job.todo
         /\ job'.pc = "failed" => job'.cur = job.cur
         /\ job'.active \subseteq job.active
         /\ job' \in JobType
  <1> USE DEF IInv
  <1>1. CASE job' = Idle
    BY <1>1, IdleType DEF Idle
  <1>2. CASE job' = [Idle EXCEPT !.pc = "revoke", !.todo = job.todo]
    <2>1. job' \in JobType
      BY <1>2, IdleType DEF TypeOK, JobType
    <2> QED BY <1>2, <2>1 DEF Idle
  <1>3. CASE job' = [job EXCEPT !.pc = "failed"]
    BY <1>3 DEF TypeOK, JobType
  <1> QED BY <1>1, <1>2, <1>3 DEF NextRow

LEMMA MarkInv ==
  ASSUME IInv, NEW commit \in Commits, MarkRevoked(commit) \/ MarkFailed(commit)
  PROVE  IInv'
  <1> USE DEF IInv
  <1> DEFINE t == job.cur
  <1>1. /\ t \in Tokens /\ t \notin job.todo /\ job.pc \in {"revoked", "failed"}
        /\ UNCHANGED <<world, edge, outbox, up, crashes>>
    BY DEF MarkRevoked, MarkFailed, JobOK
  <1>2. NextRow \/ job' = Idle \/ job' = [job EXCEPT !.pc = "failed"]
    BY DEF MarkRevoked, MarkFailed
  <1>3. /\ rows' \in [Tokens -> RowType]
        /\ \A k \in Tokens : k # t => rows'[k] = rows[k]
        /\ rows'[t] # rows[t] => \/ rows'[t].status = "REVOKED" /\ guac[t] = "dead"
                                 \/ rows'[t].status = "RETRY" /\ rows'[t].attempts < MaxAttempts
                                 \/ rows'[t].status = "FAILED"
    <2>1. CASE MarkRevoked(commit)
      BY <1>1, <2>1 DEF MarkRevoked, TypeOK, RowType, Statuses, RevokedIsDead
    <2>2. CASE MarkFailed(commit)
      BY <1>1, <2>2, LimitAssumption DEF MarkFailed, TypeOK, RowType, Statuses
    <2> QED BY <2>1, <2>2
  <1>4. TypeOK'
    BY <1>1, <1>2, <1>3, NextRowJob DEF TypeOK, RowType, world, edge
  <1>5. RevokedIsDead' /\ ExposedHasRow' /\ WaitingHasAttempts'
    BY <1>1, <1>2, <1>3, NextRowJob
    DEF RevokedIsDead, ExposedHasRow, WaitingHasAttempts, AbsentIsFresh, Waiting, TypeOK, world, edge
  <1>6. JobOK'
    BY <1>1, <1>2, <1>3, NextRowJob DEF JobOK, Over, TypeOK, JobType, world
  <1>7. AbsentIsFresh'
    BY <1>1, <1>3 DEF AbsentIsFresh, TypeOK, RowType
  <1>8. TunnelsOK' /\ ActiveHaveHistory' /\ ObservedWasUsed'
    BY <1>1, <1>2, NextRowJob DEF TunnelsOK, ActiveHaveHistory, ObservedWasUsed, world
  <1> QED BY <1>4, <1>5, <1>6, <1>7, <1>8

LEMMA StutterInv == ASSUME IInv, UNCHANGED vars PROVE IInv'
  BY DEF vars, world, edge, worker, IInv, TypeOK, RevokedIsDead, ExposedHasRow, WaitingHasAttempts, AbsentIsFresh,
         JobOK, TunnelsOK, ActiveHaveHistory, ObservedWasUsed, Over

LEMMA NextInv == IInv /\ [Next]_vars => IInv'
  BY TimeInv, BackoffInv, ExchangeInv, RegisterInv, RegisterFailsInv, TunnelInv, GuardInv, ProcessInv,
     ReconcileInv, ObservedInv, ReadInv, RevokeInv, MarkInv, StutterInv DEF Next, EdgeStep, JobStep

-----------------------------------------------------------------------------
(* Theorems.                                                               *)

\* The inductive invariant holds throughout.
THEOREM Invariance == Spec => []IInv
  BY InitInv, NextInv, PTL DEF Spec

\* Type correctness; in particular the attempts never pass their limit.
THEOREM TypeCorrect == Spec => []TypeOK
  <1>1. IInv => TypeOK
    BY DEF IInv
  <1> QED BY <1>1, Invariance, PTL

\* No token that a browser holds and Guacamole accepts escapes the queue.
THEOREM TrackedCorrect == Spec => []TrackedUntilDead
  <1>1. IInv => TrackedUntilDead
    BY DEF IInv, TrackedUntilDead, RevokedIsDead, ExposedHasRow, Waiting, Statuses, TypeOK, RowType
  <1> QED BY <1>1, Invariance, PTL

\* No session is reported whose user never connected.
THEOREM ObservedCorrect == Spec => []ObservedWasUsed
  <1>1. IInv => ObservedWasUsed
    BY DEF IInv
  <1> QED BY <1>1, Invariance, PTL

\* A step that ends the token of an open tunnel comes after the reservation.
LEMMA CutStep ==
  ASSUME IInv, [Next]_vars, NEW t \in tunnels, guac'[t] = "dead"
  PROVE  Over(t)
  <1>1. t \in Tokens /\ guac[t] = "alive"
    BY DEF IInv, TypeOK, TunnelsOK
  <1>2. ASSUME NEW k \in Tokens, NEW answer \in Answers, Revoke(k, answer) \/ GuardRevoke(k, answer)
        PROVE  Over(t)
    <2>1. Delete(k, answer) /\ Over(k)
      BY <1>2 DEF Revoke, GuardRevoke, IInv, JobOK
    <2>2. guac'[t] = guac[t] \/ t = k
      BY <1>1, <2>1, DeleteEffect DEF IInv
    <2> QED BY <1>1, <2>1, <2>2
  <1>3. \A k \in Tokens : ~Forget(k) \/ guac'[t] = guac[t]
    BY <1>1 DEF Forget, IInv, TypeOK
  <1>4. \A k \in Tokens : ~Exchange(k) \/ guac'[t] = guac[t]
    BY <1>1 DEF Exchange, IInv, TypeOK
  <1>5. \/ guac' = guac
        \/ \E k \in Tokens : Forget(k) \/ Exchange(k)
        \/ \E k \in Tokens, answer \in Answers : Revoke(k, answer) \/ GuardRevoke(k, answer)
    BY DEF Next, EdgeStep, JobStep, vars, world, Register, RegisterFails, OpenTunnel, CloseTunnel,
           GuardClose, EdgeRestart, StartJob, Reconcile, MarkObserved, ReadRevocable, MarkRevoked,
           MarkFailed, Crash, Launch, Expire, Age, BackoffElapses
  <1> QED BY <1>1, <1>2, <1>3, <1>4, <1>5

\* No session in use is cut before its reservation is over.
THEOREM NotCutCorrect == Spec => NotCutEarly
  <1>1. IInv /\ [Next]_vars => [\A t \in tunnels : guac'[t] = "dead" => Over(t)]_vars
    BY CutStep
  <1> QED BY <1>1, Invariance, PTL DEF Spec, NotCutEarly
=============================================================================
