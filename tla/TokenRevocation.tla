-------------------------- MODULE TokenRevocation --------------------------
(***************************************************************************)
(* The Guacamole tokens of reservation users, from the exchange at the     *)
(* OpenResty edge (openresty/lua/modules/guacamole_token_handler.lua) to   *)
(* their end: the durable revocation queue of the ops worker               *)
(* (ops-worker/worker.py) and the edge's own session guard                 *)
(* (openresty/lua/modules/session_guard.lua) both revoke them when the     *)
(* reservation is over, and the worker's reconciliation reports the        *)
(* sessions that really started to the observation outbox.                 *)
(*                                                                         *)
(* A step of the worker or of the edge is one deletion at Guacamole, one   *)
(* transaction, or one look of the reconciliation at a token.  The edge    *)
(* may restart, which empties its shared dicts, and the worker may die.    *)
(***************************************************************************)
EXTENDS Naturals, FiniteSets

CONSTANTS Tokens,           \* Guacamole auth tokens
          NoToken,          \* a job is not working on a token
          Users, UserOf,    \* the temporary user (dlabs-res-...) of each token
          MaxAttempts,      \* GUAC_TOKEN_REVOCATION_MAX_ATTEMPTS
          MaxCrashes,       \* bound: deaths of the worker
          MaxRestarts       \* bound: restarts of the edge

ASSUME TokenAssumption == /\ IsFiniteSet(Tokens) /\ NoToken \notin Tokens
                          /\ UserOf \in [Tokens -> Users]
ASSUME LimitAssumption == MaxAttempts \in Nat \ {0}
ASSUME BoundAssumption == MaxCrashes \in Nat /\ MaxRestarts \in Nat

VARIABLES clock,            \* now against the expiry of each user's reservation JWT
          guac,             \* what Guacamole knows of each token
          tunnels,          \* tokens with an active connection
          history,          \* guacamole_connection_history
          registering,      \* tokens whose exchange waits for the worker
          mapped,           \* tokens with mappings (guac_jwt_exp) in the shared dict
          exposed,          \* tokens a browser received
          rows,             \* guacamole_token_revocation_queue
          job,              \* the run of process_guacamole_token_revocations
          outbox,           \* tokens whose session start was enqueued
          up, crashes, restarts

edge   == <<registering, mapped, exposed, restarts>>
worker == <<rows, job, outbox, up, crashes>>
world  == <<clock, guac, tunnels, history>>
vars   == <<world, edge, worker>>

Statuses == {"ABSENT", "PENDING", "RETRY", "REVOKED", "FAILED"}
Waiting  == {"PENDING", "RETRY"}

Idle == [pc |-> "idle", cur |-> NoToken, todo |-> {}, attempts |-> 0,
         active |-> {}, revoked |-> {}]

Over(t) == clock[UserOf[t]] # "valid"

RowType == [status : Statuses, attempts : 0..MaxAttempts, due : BOOLEAN, observed : BOOLEAN]

JobType == [pc : {"idle", "reconcile", "mark", "revoke", "revoked", "failed"},
            cur : Tokens \cup {NoToken}, todo : SUBSET Tokens, attempts : 0..MaxAttempts,
            active : SUBSET Users, revoked : SUBSET Tokens]

TypeOK ==
  /\ clock \in [Users -> {"valid", "expired", "aged"}]
  /\ guac \in [Tokens -> {"none", "alive", "dead"}]
  /\ tunnels \subseteq Tokens
  /\ history \subseteq [token : Tokens, inTime : BOOLEAN]
  /\ registering \subseteq Tokens /\ mapped \subseteq Tokens /\ exposed \subseteq Tokens
  /\ rows \in [Tokens -> RowType]
  /\ job \in JobType
  /\ outbox \subseteq Tokens
  /\ up \in BOOLEAN /\ crashes \in 0..MaxCrashes /\ restarts \in 0..MaxRestarts

Init ==
  /\ clock = [u \in Users |-> "valid"]
  /\ guac = [t \in Tokens |-> "none"]
  /\ tunnels = {} /\ history = {}
  /\ registering = {} /\ mapped = {} /\ exposed = {}
  /\ rows = [t \in Tokens |-> [status |-> "ABSENT", attempts |-> 0, due |-> FALSE, observed |-> FALSE]]
  /\ job = Idle
  /\ outbox = {}
  /\ up = TRUE /\ crashes = 0 /\ restarts = 0

-----------------------------------------------------------------------------
(* Time.  "aged" is GUACAMOLE_HISTORY_RECONCILIATION_RETENTION_SECONDS     *)
(* after the expiry, by when the mappings of the edge have lapsed as well. *)

Expire(u) ==
  /\ clock[u] = "valid"
  /\ clock' = [clock EXCEPT ![u] = "expired"]
  /\ UNCHANGED <<guac, tunnels, history, edge, worker>>

Age(u) ==
  /\ clock[u] = "expired"
  /\ clock' = [clock EXCEPT ![u] = "aged"]
  /\ mapped' = {t \in mapped : UserOf[t] # u}
  /\ UNCHANGED <<guac, tunnels, history, registering, exposed, restarts, worker>>

\* Guacamole ends a token nobody uses: a logout, or API_SESSION_TIMEOUT.
Forget(t) ==
  /\ guac[t] = "alive" /\ t \notin tunnels
  /\ guac' = [guac EXCEPT ![t] = "dead"]
  /\ UNCHANGED <<clock, tunnels, history, edge, worker>>

BackoffElapses(t) ==
  /\ rows[t].status = "RETRY" /\ ~rows[t].due
  /\ rows' = [rows EXCEPT ![t].due = TRUE]
  /\ UNCHANGED <<world, edge, job, outbox, up, crashes>>

-----------------------------------------------------------------------------
(* The edge hands out a token: guacamole_token_handler.                    *)

\* A refusal answers 503 and clears the mappings of the token.
Refuse(t) == registering' = registering \ {t} /\ mapped' = mapped \ {t}

\* Guacamole answers a user whose JTI is valid with a new token, or with the
\* one the browser already has; secure_reservation_token stores the mappings,
\* or refuses.
Exchange(t) ==
  /\ t \notin registering /\ ~Over(t) /\ guac[t] # "dead"
  /\ guac' = [guac EXCEPT ![t] = "alive"]
  /\ \/ registering' = registering \cup {t} /\ mapped' = mapped \cup {t}
     \/ Refuse(t)
  /\ UNCHANGED <<clock, tunnels, history, exposed, restarts, worker>>

\* enqueue_guacamole_token_revocation: the insert, or the repair of the row
\* that exists.
Enqueued(t) ==
  rows' = [rows EXCEPT ![t] =
             CASE @.status = "ABSENT" -> [@ EXCEPT !.status = "PENDING", !.due = TRUE]
               [] @.status = "FAILED" -> [@ EXCEPT !.status = "RETRY", !.attempts = 0, !.due = TRUE]
               [] OTHER -> @]

\* The token is exposed once the worker has answered 202.
Register(t) ==
  /\ up /\ t \in registering
  /\ Enqueued(t)
  /\ exposed' = exposed \cup {t} /\ registering' = registering \ {t}
  /\ UNCHANGED <<world, mapped, restarts, job, outbox, up, crashes>>

\* A registration that fails, or takes longer than 1.5 s, may have been stored.
RegisterFails(t) ==
  /\ t \in registering
  /\ Refuse(t)
  /\ UNCHANGED rows \/ (up /\ Enqueued(t))
  /\ UNCHANGED <<world, exposed, restarts, job, outbox, up, crashes>>

-----------------------------------------------------------------------------
(* The browser uses the token: access_handler.enforce_guac_timeout knows   *)
(* the expiry of mapped tokens only.                                       *)

OpenTunnel(t) ==
  /\ t \in exposed \ tunnels /\ guac[t] = "alive"
  /\ t \in mapped => ~Over(t)
  /\ tunnels' = tunnels \cup {t}
  /\ history' = history \cup {[token |-> t, inTime |-> ~Over(t)]}
  /\ UNCHANGED <<clock, guac, edge, worker>>

CloseTunnel(t) ==
  /\ t \in tunnels
  /\ tunnels' = tunnels \ {t}
  /\ UNCHANGED <<clock, guac, history, edge, worker>>

\* DELETE /tokens/<token>: the session ends with its tunnels.  "ok" is 204,
\* or 404 for a token that is gone; "error" has an effect or not.
Delete(t, answer) ==
  /\ answer = "ok" => guac[t] = "alive"
  /\ answer = "missing" => guac[t] = "dead"
  /\ \/ guac' = [guac EXCEPT ![t] = "dead"] /\ tunnels' = tunnels \ {t}
     \/ answer = "error" /\ UNCHANGED <<guac, tunnels>>

Answers == {"ok", "missing", "error"}

-----------------------------------------------------------------------------
(* check_expired_sessions of the edge.  Its lists are read afresh every 10 *)
(* seconds, and a run skips the tokens of a user whose tunnel it could not *)
(* close: each tunnel and each token is a step that may or may not come.   *)

GuardClose(t) ==
  /\ t \in tunnels /\ Over(t)
  /\ tunnels' = tunnels \ {t}
  /\ UNCHANGED <<clock, guac, history, edge, worker>>

\* Only 204 clears the mappings.
GuardRevoke(t, answer) ==
  /\ t \in mapped /\ Over(t)
  /\ Delete(t, answer)
  /\ mapped' = IF answer = "ok" THEN mapped \ {t} ELSE mapped
  /\ UNCHANGED <<clock, history, registering, exposed, restarts, worker>>

\* nginx restarts: the dicts and every connection through it are gone.
EdgeRestart ==
  /\ restarts < MaxRestarts
  /\ restarts' = restarts + 1
  /\ registering' = {} /\ mapped' = {} /\ tunnels' = {}
  /\ UNCHANGED <<clock, guac, history, exposed, worker>>

-----------------------------------------------------------------------------
(* _reconcile_guacamole_observations.                                      *)

\* Mutated form: a token that was revoked meanwhile is not looked at again.
ReconcilableWaiting == {t \in Tokens : /\ rows[t].status \in Waiting
                                       /\ ~rows[t].observed
                                       /\ clock[UserOf[t]] # "aged"}

Reconcilable == {t \in Tokens : /\ rows[t].status \in Waiting \cup {"REVOKED"}
                                /\ ~rows[t].observed
                                /\ clock[UserOf[t]] # "aged"}

\* Mutated form: rows are taken whether expired or not.
RevocableAlways == {t \in Tokens : rows[t].status \in Waiting /\ rows[t].due}

Revocable == {t \in Tokens : rows[t].status \in Waiting /\ rows[t].due /\ Over(t)}

\* The connections that are active and the rows to look at.
StartJob ==
  /\ up /\ job.pc = "idle"
  /\ Reconcilable \cup Revocable # {}
  /\ job' = [Idle EXCEPT !.pc = "reconcile", !.todo = Reconcilable,
                         !.active = {UserOf[t] : t \in tunnels},
                         !.revoked = {t \in Reconcilable : rows[t].status = "REVOKED"}]
  /\ UNCHANGED <<world, edge, rows, outbox, up, crashes>>

\* guacamole_connection_history is matched by user name, from the time the
\* token was registered to its expiry: its own connections, and perhaps
\* earlier ones of another token of the user.
InTime == {r.token : r \in {x \in history : x.inTime}}

Historical(t) ==
  CASE t \in InTime -> {TRUE}
    [] UserOf[t] \in {UserOf[s] : s \in InTime} -> BOOLEAN
    [] OTHER -> {FALSE}

\* Mutated form: a valid token counts as a session.
ReconcileToken(t) ==
  /\ job.pc = "reconcile" /\ t \in job.todo
  /\ guac[t] = "alive"
  /\ job' = [job EXCEPT !.pc = "mark", !.cur = t, !.todo = @ \ {t}]
  /\ outbox' = outbox \cup {t}
  /\ UNCHANGED <<world, edge, rows, up, crashes>>

\* A row whose user has or had a connection is observed if Guacamole still
\* accepts the token, or if it was revoked and the history knows the user.
\* A look that fails, in any of its calls, passes over the row.
Reconcile(t) ==
  /\ job.pc = "reconcile" /\ t \in job.todo
  /\ \/ /\ \E historical \in Historical(t) :
             \/ historical /\ t \in job.revoked
             \/ (historical \/ UserOf[t] \in job.active) /\ guac[t] = "alive"
        /\ job' = [job EXCEPT !.pc = "mark", !.cur = t, !.todo = @ \ {t}]
        /\ outbox' = outbox \cup {t}
     \/ /\ job' = [job EXCEPT !.todo = @ \ {t}]
        /\ UNCHANGED outbox
  /\ UNCHANGED <<world, edge, rows, up, crashes>>

\* observed_at; a database error ends the reconciliation.
MarkObserved(saved) ==
  /\ job.pc = "mark"
  /\ job' = [job EXCEPT !.pc = "reconcile", !.cur = NoToken, !.todo = IF saved THEN @ ELSE {}]
  /\ rows' \in IF saved THEN {[rows EXCEPT ![job.cur].observed = TRUE]}
                        ELSE {rows, [rows EXCEPT ![job.cur].observed = TRUE]}
  /\ UNCHANGED <<world, edge, outbox, up, crashes>>

-----------------------------------------------------------------------------
(* process_guacamole_token_revocations.                                    *)

ReadRevocable ==
  /\ job.pc = "reconcile" /\ job.todo = {}
  /\ job' = IF Revocable = {} THEN Idle ELSE [Idle EXCEPT !.pc = "revoke", !.todo = Revocable]
  /\ UNCHANGED <<world, edge, rows, outbox, up, crashes>>

Work(step, t) == job' = [job EXCEPT !.pc = step, !.cur = t, !.todo = @ \ {t},
                                    !.attempts = rows[t].attempts + 1]

\* Mutated form: any answer counts.
RevokeTrustsAnswer(t, answer) ==
  /\ job.pc = "revoke" /\ t \in job.todo
  /\ Delete(t, answer)
  /\ Work("revoked", t)
  /\ UNCHANGED <<clock, history, edge, rows, outbox, up, crashes>>

Revoke(t, answer) ==
  /\ job.pc = "revoke" /\ t \in job.todo
  /\ Delete(t, answer)
  /\ Work(IF answer = "error" THEN "failed" ELSE "revoked", t)
  /\ UNCHANGED <<clock, history, edge, rows, outbox, up, crashes>>

NextRow == job' = IF job.todo = {} THEN Idle
                  ELSE [Idle EXCEPT !.pc = "revoke", !.todo = job.todo]

\* How a transaction ends for its caller: an exception leaves open whether
\* the database committed.
Commits == {"done", "done_raised", "raised"}

MarkRevoked(commit) ==
  /\ job.pc = "revoked"
  /\ rows' = IF commit = "raised" THEN rows
             ELSE [rows EXCEPT ![job.cur].status = "REVOKED", ![job.cur].attempts = job.attempts]
  /\ IF commit = "done" THEN NextRow ELSE job' = [job EXCEPT !.pc = "failed"]
  /\ UNCHANGED <<world, edge, outbox, up, crashes>>

\* Mutated form: the row keeps the status PENDING and never becomes due again.
MarkFailedNotDue(commit) ==
  /\ job.pc = "failed"
  /\ rows' = IF commit = "raised" THEN rows ELSE [rows EXCEPT ![job.cur].due = FALSE]
  /\ IF commit = "done" THEN NextRow ELSE job' = Idle
  /\ UNCHANGED <<world, edge, outbox, up, crashes>>

\* An exception here ends the run.
MarkFailed(commit) ==
  /\ job.pc = "failed"
  /\ rows' = IF commit = "raised" THEN rows
             ELSE [rows EXCEPT ![job.cur].status = IF job.attempts >= MaxAttempts THEN "FAILED" ELSE "RETRY",
                               ![job.cur].attempts = job.attempts, ![job.cur].due = FALSE]
  /\ IF commit = "done" THEN NextRow ELSE job' = Idle
  /\ UNCHANGED <<world, edge, outbox, up, crashes>>

-----------------------------------------------------------------------------
Crash ==
  /\ up /\ crashes < MaxCrashes
  /\ up' = FALSE /\ crashes' = crashes + 1
  /\ job' = Idle
  /\ UNCHANGED <<world, edge, rows, outbox>>

Launch ==
  /\ ~up /\ up' = TRUE
  /\ UNCHANGED <<world, edge, rows, job, outbox, crashes>>

-----------------------------------------------------------------------------

EdgeStep(t) ==
  \/ Exchange(t) \/ Register(t) \/ RegisterFails(t)
  \/ OpenTunnel(t) \/ CloseTunnel(t) \/ Forget(t) \/ GuardClose(t)
  \/ \E answer \in Answers : GuardRevoke(t, answer)

JobStep ==
  \/ \E t \in Tokens : Reconcile(t)
  \/ \E saved \in BOOLEAN : MarkObserved(saved)
  \/ ReadRevocable
  \/ \E t \in Tokens, answer \in Answers : Revoke(t, answer)
  \/ \E commit \in Commits : MarkRevoked(commit) \/ MarkFailed(commit)

Next ==
  \/ \E t \in Tokens : EdgeStep(t) \/ BackoffElapses(t)
  \/ EdgeRestart
  \/ StartJob \/ JobStep
  \/ Crash \/ Launch
  \/ \E u \in Users : Expire(u) \/ Age(u)

Spec == Init /\ [][Next]_vars

\* The worker is restarted, its job is periodic and every call of it has a
\* timeout; reservations end.  The database does not refuse the failure mark
\* of one token for ever, nor do all looks at one used token fail.
Fairness ==
  /\ WF_vars(Launch) /\ WF_vars(StartJob) /\ WF_vars(JobStep)
  /\ \A u \in Users : WF_vars(Expire(u))
  /\ \A t \in Tokens : /\ WF_vars(BackoffElapses(t))
                       /\ SF_vars(job.cur = t /\ MarkFailed("done"))
                       /\ SF_vars(Reconcile(t) /\ outbox' = outbox \cup {t})

FairSpec == Spec /\ Fairness

-----------------------------------------------------------------------------
(* Properties.                                                             *)

\* A token a browser holds and Guacamole still accepts is in the revocation
\* queue: to be revoked, or given up after the last attempt.  No failure of
\* the edge, the worker or Guacamole loses it (guacamole_token_handler,
\* process_guacamole_token_revocations).
TrackedUntilDead ==
  \A t \in exposed : guac[t] = "alive" => rows[t].status \in Waiting \cup {"FAILED"}

\* Neither the worker nor the session guard ends a session in use before the
\* reservation is over.
NotCutEarly ==
  [][\A t \in tunnels : guac'[t] = "dead" => Over(t)]_vars

\* A session is reported as observed only if the user it is reported for
\* really connected (_reconcile_guacamole_observations).
ObservedWasUsed ==
  \A t \in outbox : \E r \in history : UserOf[r.token] = UserOf[t]

\* A token handed out ends after its reservation, or is marked FAILED.
ExpiredIsRevoked ==
  \A t \in Tokens :
    t \in exposed /\ Over(t) ~> guac[t] = "dead" \/ rows[t].status = "FAILED"

\* A session that started in time is reported, even one so short that the
\* worker never saw it active: unless its revocation failed, or the retention
\* of the evidence ran out.
UsedIsObserved ==
  \A t \in Tokens :
    t \in InTime ~> \/ t \in outbox
                   \/ clock[UserOf[t]] = "aged"
                   \/ rows[t].status = "FAILED"
=============================================================================
