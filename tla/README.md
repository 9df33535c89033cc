# TLA+ models of the Lab Gateway

This directory is the verification project kept beside the Lab Gateway: TLA+
modules for the parts of it whose correctness depends on order, failure and
time, TLC configurations that check them on small instances, and proofs that
TLAPS checks for every instance.

- [The system](#the-system)
- [Modules](#modules)
- [Runs, bounds and what they show](#runs-bounds-and-what-they-show)
- [Findings](#findings)
- [Fairness](#fairness)
- [Proofs](#proofs)
- [Not modelled](#not-modelled)
- [Plan](#plan)

## The system

A Lab Gateway stands between users with a lab reservation and the laboratory's
machines. It is a set of containers: an OpenResty edge, an operations worker
(Python), an FMU runner (Python), Guacamole, MySQL, and blockchain-services,
which is a submodule and external here. Marketplace (the reservation calendar)
and the Lab Stations are external too.

| Component | State | Operations | Hard parts | What makes it correct |
|---|---|---|---|---|
| Observation outbox (`ops-worker/worker.py`) | MySQL table of observations: status, attempts, next attempt, lock | ingest, duplicate recovery, claim, post, mark | threads, lost answers, failed commits, death of the worker | delivered only when recorded; claimed by one run; budget exact; nothing accepted is forgotten |
| Reservation orchestrator (`ops-worker/worker.py`) | `lab_reservations.status`, operation records (cooldown) | scan, dispatch start, dispatch end, record, status update; the same handlers by HTTP | snapshot older than the dispatch by minutes, commands that time out but ran, cancellations | status is earned and moves forward; ended reservations are cleaned up |
| Token revocation queue (`ops-worker/worker.py`), session guard and token handler (`openresty/lua`) | durable queue of Guacamole tokens; shared dict of token mappings | register, revoke at expiry with retries, close tunnels, observe sessions | two revokers of one token, dict entries of users and tokens mixed, unguarded updates | no token is handed out that nothing revokes |
| Temporary Guacamole users (`ops-worker/worker.py`) | Guacamole tables | provision, delete, clean up by date | a date that stands for a moment, users that are prolonged | a running reservation keeps its user; no permission without activation |
| Failure alerts (`ops-worker/worker.py`) | operation records | record a failure, check, post with retries, record the alert | threads between check and record, cooldown | no outage stays silent, at most one alert per thread in a cooldown |
| Host catalog (`ops-worker/worker.py`) | two JSON files, the registry of the API and that of the automator | provision, load, publish, restart | requests that load for long and publish in any order, one temporary file for all | one catalog, of valid hosts |
| Credentials and their rotation (`ops-worker/worker.py`, `rotate_secrets.py`) | encrypted store, key file, backup | save, read, rotate, recover | death between any two steps of a rotation | every credential can be read back |
| Demo slot (`openresty/lua/modules`) | shared dicts: counter, session keys with lifetimes | handoff, admission, release, overlap check | keys that expire at any time, calendar asked before the slot is taken | one demo session; overlap revoked |
| Access-code exchange, FMU access store (`openresty/lua`) | shared dict, encrypted files | redeem, check, save, commit, release, read back, revoke | answers that are late or lost, a restart or an eviction between two of the steps | one session for a code; a session lasts until it ends or is revoked; revoked stays revoked |
| FMU simulation jobs (`fmu-runner/main.py`) | slot counters, registry of futures, process pools, cache of observed credentials | run, stream, cancel, timeout | two requests finalize one job, clients that leave, lost answers of the backend, native code that ignores cancellation | the limit holds; slots come back; nothing runs that is not recorded |
| Realtime sessions (`fmu-runner/realtime_ws.py`) | session objects, registry, the slot counter of the jobs, one handler per socket, one runner task per run | create, attach, initialize, start, pause, terminate, detach, clean-up | reattachment against the clean-up, observation confirmed while the window ends, commands to a session another socket took | observed before it is used; one runner; slots cover sessions; left and expired sessions are closed |
| Station proxy (`fmu-runner/station_ws_proxy.py`) | per client: pending creates, answered requests, current session, socket to the Station; registry | forward, relay, confirm, clean-up | handler and reader interleave, requests are repeated, sockets break | observed before it is announced |
| JWKS cache (`fmu-runner/auth.py`) | cached keys, their age, since when stale | fetch, refresh on an unknown key, fallback, health | answers of concurrent fetches overtake each other, issuer unreachable | a withdrawn key dies in bounded time |
| Native FMU proxy (`fmu-proxy-runtime-src`) | FMI instance, session state, pending requests | FMI calls, request and response, reconnect | correlation, protocol order | calls only in allowed states |
| Admin, lab-manager, billing and AAS access checks, health, AAS documents, web pages, set-up | none or derived | single requests | none across requests | - |

How they interact. The edge admits a browser, asks the worker to register the
Guacamole token it hands out, and posts observations; the worker delivers
observations to blockchain-services, drives the Lab Stations through WinRM when
the projection says a reservation starts or ends, and revokes tokens; the FMU
runner admits jobs and reports a session as observed before it computes. A
process of the runner serves realtime sessions itself or, in station mode,
forwards them to the runner of a Lab Station, which is reached as an internal
client of the former kind; `RealtimeSessions` has both kinds of client.

Local realtime sessions (`FMU_LOCAL_REALTIME_ENABLED`, off by default) and the
jobs of the same process share the slots of a lab: `main.py:1586-1587` hands the
manager the `_acquire_slot` and `_release_slot` of the run, stream and cancel
endpoints. `LabSlots` is what the two know of each other: `SimulationJobs`
implements it, and `RealtimeSessions` takes its steps beside its own.

## Modules

| Module | Models | Correspondence |
|---|---|---|
| `ObservationDelivery` | the promise of the outbox | an observation is queued until it is delivered, which needs a record at the backend, or given up, from where a new report may queue it again |
| `ObservationOutbox` | `worker.py` 3632-3901 | `rows` is the table; `due` and `before` stand for `next_attempt_at`; `duplicates` are inserts that met `IntegrityError` and have not run their second transaction; `job` is the one running instance of `deliver_session_observation_outbox`. Every transaction is one action |
| `ReservationLifecycle` | the promise of the automation | a reservation becomes ACTIVE or COMPLETED only when its station was prepared or released for it, is completed on a station that does not wait for it, and is not prepared once completed |
| `ReservationOrchestrator` | `worker.py` 3082-3333 with `handle_reservation_start`, `handle_reservation_end` | `status` is the projection, `cooling` the records within the cooldown, `scan` the snapshot and the position of `scan_once`; `phase` is the time against each reservation's window. Each network step, record and update is one action |
| `LabSlots` | the promise of the jobs to whoever shares their counter | a request takes a slot below the limit and gives one back; a cancelled one gives back two |
| `SimulationJobs` | `fmu-runner/main.py`, run, stream and cancel | `active` is `_active_counts`, `tracked` the keys of `_running_futures`, `observed` the runner's cache of credentials and `recorded` what the backend has of them, `pc` where each request is between two awaits, `future` and `worker` the private pool |
| `DemoSlot` | `demo_guard`, `demo_handoff`, demo branches of `access_handler`, `guacamole_token_handler`, `log_handler`, and `session_guard` | `counter`, `sess` and `life` are dict entries with the ticks they have left; `Tick` lets keys expire; `poll` is the session the overlap check waits for the network with |
| `TokenRevocation` | `worker.py` 3351-3629, `guacamole_token_handler`, `token_revocation_reporter`, `enforce_guac_timeout`, `check_expired_sessions` | `rows` is the revocation queue, `mapped` the tokens with entries in the shared dict, `job` the one run of `process_guacamole_token_revocations`; `guac`, `tunnels` and `history` are what Guacamole knows. A run of the guard is a step for each tunnel and token it gets to |
| `RealtimeSessions` | `realtime_ws.py`: `_RealtimeSession`, `RealtimeWsManager`, with the slots of `main.py` | `session[s]` is the object, `sessions` the registry, `handler[c]` the local variables of `handle_websocket` and where it awaits, `active` the lab's count, `job` the run and stream requests that share it, `closing` the session the clean-up loop is telling that it expired. A step is what runs between two awaits that suspend |
| `StationProxy` | `station_ws_proxy.py` | `proxy[c]` holds the local variables of a handler and of its reader; `toStation` and `fromStation` are the two directions of the socket to the Station, whose answers are external |
| `JwksCache` | `auth.py`: `_fetch_jwks`, `verify_jwt_token`, `jwks_health` | `cache` is `_jwks_cache`, `verifier[v]` a coroutine; tokens signed with one key, which the issuer withdraws at some moment |
| `HostCatalog` | `worker.py`: `load_config`, `upsert_dynamic_host`, `write_dynamic_config`, `reload_hosts` | `dynamic` and `temporary` are files, `hosts` and `automator` what the API and the automator work on, `request[t]` a thread of the server |
| `WinrmSecrets` | `worker.py` credentials, `rotate_secrets.py` | `store`, `newKeyFile`, `backup` are files; every replacement of a file is a step, and the rotation may die before each |
| `FailureAlerts` | `worker.py` 944-1115 | `failures` and `alerts` are the `created_at` of the rows in the order of their ids, `recorder[t]` is a thread between its record, its check and its post |
| `TemporaryUsers` | `worker.py`, provisioning, deletion and clean-up of Guacamole users | `account` is what the tables hold, `promised` what the caller was last told; time is finer than the stored date |
| `AccessGrant` | the promise of the exchange | a code is consumed once, one cookie at most is handed out for it, and its session lets the client in until it is revoked or expires, never again |
| `AccessCodeExchange` | `access_code_exchange.lua`, `fmu_access_store`, `fmu_access_handler`, `fmu_session_revoke_handler` | `exchange[x]` is where a request waits for blockchain-services, `asked` the requests on their way there, of which it may have given up some; `file` and `cached` are the two places of a session. nginx has one worker, so what runs between two of those requests is one action |
| `MCServices` | `RealtimeSessions` and the seven services after it, side by side | they share no state: `part` chooses which one takes the steps of a behaviour, so that the states add up instead of multiplying |
| `ObservationOutbox_proofs`, `ReservationOrchestrator_proofs`, `SimulationJobs_proofs`, `DemoSlot_proofs`, `TokenRevocation_proofs`, `RealtimeSessions_proofs`, `StationProxy_proofs`, `Services_proofs` | theorems about the module each is named after; `Services_proofs` is about `JwksCache`, `HostCatalog`, `WinrmSecrets`, `TemporaryUsers`, `FailureAlerts` and `AccessCodeExchange` | see [Proofs](#proofs) |
| other `MC...` | instances for TLC | constants as model values |

Four modules state what a component promises without its mechanism, and the
module of the component ends with the refinement:

- `ObservationOutbox`: `INSTANCE ObservationDelivery WITH` the states of the
  table mapped to the contract's; `ImplementsDelivery` and
  `ImplementsLiveDelivery` are the contract's specifications, the second with
  its liveness.
- `ReservationOrchestrator`: `INSTANCE ReservationLifecycle WITH` the session of
  each host as its station; the scan, its snapshot, the operation records, the
  position of each reservation's window and the deaths of the worker have no
  counterpart, so every step about them only is a stutter
  (`ImplementsLifecycle`).
- `SimulationJobs`: an `INSTANCE LabSlots` for each lab, `WITH` the count of that
  lab and what each of its requests is to the slots; observations, pools,
  answers and the registry have no counterpart. `ImplementsSlots` says in one
  box that every step is a step of each lab's slots or leaves them alone.
- `AccessCodeExchange`: `INSTANCE AccessGrant WITH` the codes that
  blockchain-services has consumed, those a cookie went out for, and the
  sessions of such codes that are in the file or the shared dict
  (`ImplementsGrant`). A session that was saved for nobody yet is not one that
  lives.

What is abstracted: payloads, JSON, logging, the text of errors; the order of
equally due rows; the number of seconds of any delay. Clocks appear as "has
passed" or as ticks. Definitions whose comment says *mutated form* are
plausible bugs of the code; no specification uses them, and each shows that a
property would notice.

## Runs, bounds and what they show

| Run | Properties | What it shows |
|---|---|---|
| `outbox` | `SentWasRecorded`, `ClaimIsExclusive`, `FailedIffExhausted`, `TerminalIsFinal`, `ImplementsDelivery`, `ImplementsLiveDelivery` | the outbox keeps its promises through duplicates, lost answers, failed commits and the death of the worker, and settles all it accepted |
| `outbox_waitress` (violation) | `PendingIsTakenUp` | started as the image starts it, no job runs |
| `orchestrator` | `StatusIsEarned`, `CompletedIsClean`, `StatusMovesForward` | the projection is truthful and no completed reservation leaves a prepared station |
| `orchestrator_live` | `EndedIsSettled`, `ImplementsLifecycle` | an ended reservation is cleaned up, also beside a lab without a host; the automation implements `ReservationLifecycle` |
| `orchestrator_release_completes` (violation) | `ReleaseCompletes` | a release that succeeded may not complete its reservation |
| `simulation_jobs` | `SlotsNotLeaked`, `OvershootIsBounded`, `LimitButFor`, `ObservedBeforeWork`, `SlotsReturn`, `ImplementsSlots` | slots are never lost, and released twice only by cancellations; only cancelled jobs and left streams take a lab beyond its limit; no work starts that the backend has not recorded; to others the requests of a lab are those of `LabSlots` |
| `simulation_cancel` (violation) | `LimitHolds` | cancelling lets more jobs run than the limit |
| `demo_slot` | `CountedUntilLapse`, `ExclusiveUntilEarly`, `OverlapIsRevoked` | the counter covers the live sessions until it expires under one, and a release after that leaves no debt; the slot is exclusive until one is given back early; a demo token that overlaps a reservation is revoked |
| `demo_slot_one_session` (violation) | `OneDemoSession` | two demo sessions can be live |
| `token_revocation` | `TrackedUntilDead`, `ObservedWasUsed`, `NotCutEarly`, `ExpiredIsRevoked`, `UsedIsObserved` | no token a browser holds escapes the queue, no session in use is cut early, none is reported that did not start; after the reservation a token ends or is marked FAILED; a session that started in time is reported |
| `services` | local mode, alone and with a run request on the same counter: `SlotsCoverSessions`, `RegisteredWhileOpen`, `OneRunner`, `AttachedIsObserved`, `ExpiredIsClosed`, `DetachedIsReclaimed`; station mode: `ObservedBeforeCreated`; keys: `WithdrawnKeyDies`; catalog: `OneValidCatalog`; credentials: `CredentialsSurvive`; alerts: `OutageIsAlerted`; users: `ReservationKeepsUser`; access: `RedeemedOnce`, `LastsUntilRevoked`, `ImplementsGrant` | eight parts that share no state, one in each behaviour: they keep what they promise through failed observations, reattachment, dead sockets, answers that overtake each other or are lost, torn files, restarts of the edge, failed tables and a death at every step of a rotation |
| `station_proxy_retry` (violation) | `ObservedBeforeCreated` | a requestId that is repeated before its answer brings a session without an observation |

Bounds, and why they are enough:

- Outbox: two observations, batch size 1, two attempts, two reports of each
  observation, one death. Two rows are what it takes for one to wait behind the
  other and for a claim to choose; two attempts give a first, a retry and a last
  one; a second report meets the row in every status; one death leaves a row
  locked, and a second death can only repeat that.
- Orchestrator: two reservations, because its hazards are between a scan and
  one reservation or between two reservations that follow each other on one
  station. One death of the worker. Every reservation goes through all
  positions of its window. In `orchestrator_live` operators do nothing, since
  they cannot make a reservation settle; that their steps are steps of
  `ReservationLifecycle` too is proved (`ManualRefines`).
- Simulations: four jobs on two labs, limit 1: two runs and a stream compete
  for one lab, a run of another lab shares a credential, so it may start on
  the confirmation of another request. With limit 1 a slot released twice admits
  a second job. Nobody but the requests moves the counters, as in a process with
  local realtime off. With it on, `SlotsNotLeaked` and `SlotsReturn` do not hold
  as they stand: sessions hold slots too, and a create that was refused keeps
  its slot (see [Findings](#findings)). What holds of the shared counter is
  `SlotsCoverSessions`.
- Demo: two sessions, one that is released and one that inherits its counter,
  with a lifetime of four ticks, which is more than the two can use up without
  an expiry, and two tunnels each. The violation needs a third session that
  is admitted beside the others.
- Tokens: one token, two attempts, two deaths of the worker and two restarts of
  the edge. Rows wait for each other only within a run of the job, and evidence
  is matched by user name, which is where two tokens meet: that the safety
  properties survive any number of tokens, deaths and restarts is proved.
- Realtime sessions: a client of the edge and the internal hop of a Station,
  two sessions in turn, limit 1, one reservation. A session needs a second
  connection to be taken away, and a second session to be given a slot that was
  returned too often. Requests and sessions on one counter are checked in a part
  of their own, with one request and the Station hop as the only client, since
  what is left to happen is a second release beside an open session; that any
  number of requests and clients keeps `SlotsCoverSessions` is proved. The
  identifiers bound how many sessions are ever created; the proofs do not need
  the bound.
- Station proxy: one client with two requests and two sessions, one message in
  flight each way. `Retries` is FALSE: no client repeats a requestId that was
  not answered yet. That is the precondition of the property, and the run
  `station_proxy_retry` shows what happens without it.
- Keys: two verifications whose fetches overlap, a clock of seven moments with
  a cache of one and a fallback of three: a fetch that began before the
  withdrawal may end after one that began later. `FetchTime` is the longest a
  fetch takes; the client's timeout is for each of its operations, so the code
  bounds it only through the number of those.
- Catalog: three requests, so that two can interleave with a third that
  reloads; a host of each file and one that fails validation.
- Credentials: two with two values and three keys, which is two rotations, the
  second after a failure or a success of the first.
- Alerts: two threads, threshold 2, window 1, cooldown 2, four moments and two
  failures in each: failures straddle a window, alerts straddle a cooldown.
- Users: one user, two connections, days of two hours, three days: an end in
  the first and in the last hour of a day, and prolongations across a day.
- Access: a code of an FMU and one of Guacamole, two exchanges, which may be of
  the same code. Any request may be given up and served later, and the edge may
  restart at any time. `Slow` is FALSE: an exchange commits within the 30 s
  of its lease. Two requests with timeouts of 5 s for each of their operations
  normally take less; the code does not enforce it. `RedeemedOnce` holds without it
  (`RedeemedCorrect`); the other two properties do not.

`CHECK_DEADLOCK FALSE` is set where the modelled system has a last state: all
reports are in, all reservations lapsed, all jobs answered, all tokens gone.

## Findings

1. *No scheduled job runs in the container.* `ops-worker/Dockerfile` starts
   `waitress-serve ... worker:APP`; `start_scheduler` is called by `main()`
   only, which an import does not run. Observations, revocations and
   reservations wait for ever (`outbox_waitress`).
2. *A release does not complete the reservation.* If one scan finds a
   reservation both startable and ended, the start moves it to ACTIVE, and the
   end updates `WHERE status = 'CONFIRMED'` from the scan's snapshot. It stays
   ACTIVE and is released, with a reboot, again (`orchestrator_release_completes`).
3. *A cancelled simulation gives its slot back twice.* The cancel endpoint
   finalizes the job and the request that ran it finalizes it again, with a
   fallback that releases regardless (`simulation_cancel`). The second slot may
   also be that of a realtime session (`LabSlots`, `SlotsCoverSessions`).
4. *Two demo sessions.* `incr(key, 1, 0, ttl)` sets the lifetime only of a new
   key; the counter expires under the second session, and a third one is let in
   (`demo_slot_one_session`).
5. *A station session without an observation.* The proxy knows a requestId when
   it is answered. A client that repeats `session.create` before that makes it
   forward the create twice under one context. If the observation of the first
   answer fails, the Station answers the second from its cache, the proxy finds
   no context and relays `session.created` (`station_proxy_retry`).

The models reach further behaviours that have no run of their own:

- *Orchestrator.* A scan wakes and prepares a reservation that it is about to
  release; the delayed release reboots the station under the next reservation; a
  reservation cancelled while ACTIVE is never released.
- *Simulations.* A stream whose client leaves gives its slot back while its
  worker still computes.
- *Demo.* A release after the counter expired leaves a key without a lifetime;
  if the next session is not closed cleanly, nothing resets it
  (`SlotHasFallback` in `DemoSlot` is the property it breaks).
- *Tokens.* A token whose mappings the edge lost opens tunnels after the end of
  the reservation until the worker deletes it; a revocation that was committed,
  but not acknowledged, is marked as failed.
- *Realtime sessions.* The socket that terminated a session keeps it as its
  current one and may initialize and start it again: it runs without a slot, so
  more than `MAX_CONCURRENT_PER_MODEL` may run (`.env.example:278`;
  `RunningWithinLimit`); the slots of cancelled jobs, given back twice, let as
  many more in. A create that is refused by the window check keeps its
  slot until the process restarts (`realtime_ws.py:1047`). A second create or
  attach on one socket leaves the first session attached to a connection that
  will be gone, so no grace begins and it lives until its window ends.
- *Station.* `session.terminate` ends the current session of the socket,
  whatever session it names: a proxy that ends an unconfirmed session may end
  another.
- *Catalog and credentials.* Writers share one temporary file: two at once may
  tear the file or lose an update (`HostCatalog` has it for the catalog).
  Provisioning writes before it validates, so a bad host stays in the file and
  the worker does not start again until it is repaired. The docstring of
  `rotate_credentials` speaks of replacing two files atomically; between them
  only the backup holds both halves.
- *Alerts.* An alert that could not be sent is recorded and silences the host
  for the cooldown.
- *Access codes.* A commit whose answer is lost consumes the code, and the
  session is taken back: the user has neither. If an exchange outlasts its lease
  (`Slow`), the code may be redeemed again, and the late one's failure removes
  the session of the second from the file, since both carry one `jti`
  (`LastsUntilRevoked` is violated with `Slow = TRUE`). A session that could not
  be removed after a failed commit stays in its file until it expires; nobody was
  given its cookie. A restart of the edge loses the user of a consumed Guacamole
  code, whose cookie then leads nowhere.
- *Users.* An activation for another connection keeps the permission of the
  first; a user without `valid_until` is never cleaned up.

## Fairness

- Outbox: the container restarts a dead worker (`restart: always`), APScheduler
  fires again (`ClaimRows`), delays pass, a post or a mark ends because every call
  has a timeout. Strong fairness says only that the database does not refuse the
  failure mark of one observation every single time. Nothing is assumed of new
  reports or of the backend.
- Orchestrator: the scan is periodic, each network step has a timeout, time
  passes until the end is due. Strong fairness of the release command and of
  the status update of one reservation: neither fails every time it is tried.
  That time runs past the lookback is never assumed nor excluded; the property
  allows it.
- Simulations: weak fairness of each request's own steps, which the event loop
  and the timers give. The worker process gets none: native code may compute
  for ever.
- Tokens: the worker is restarted and its job fires again, reservations end and
  delays pass. Strong fairness of the failure mark of one token and of the look
  at one used token. Nothing is assumed of the session guard of the edge, of
  Guacamole's answers or of the browser: the worker alone keeps the promise.
- Realtime sessions: the event loop goes on (`RealtimeFairness`): the clean-up
  loop comes round and its message to a client is sent or fails, the grace ends,
  and a runner wakes. Nothing is assumed of clients, of the observation, or of
  the ticket service.
- Demo: the timer repeats, so a token that stays is looked at again while the
  calendar is busy, and not every call to Guacamole fails.

## Proofs

Each `_proofs` module holds one inductive invariant (`IInv`, `RtInv`,
`ProxyInv`; `Services_proofs` has one for each service, and `RedemptionInv` for
the redemption alone), the lemmas that
every action preserves it, and the theorems that follow. They hold for every
value of the constants that meets the named assumptions of the module (finite
sets, positive limits), so for every number of reservations, tokens, requests
and sessions, every retry limit and any number of crashes. TLC checked each
invariant on the instance of its run before it was proved.

| Module | Theorem | States |
|---|---|---|
| `ObservationOutbox_proofs` | `TypeCorrect` | `TypeOK` |
| | `SentCorrect` | `SentWasRecorded` |
| | `ClaimCorrect` | `ClaimIsExclusive` |
| | `BudgetCorrect` | `FailedIffExhausted` |
| | `TerminalCorrect` | `TerminalIsFinal` |
| | `Implements` | `ImplementsDelivery`: the outbox refines `ObservationDelivery` |
| `ReservationOrchestrator_proofs` | `TypeCorrect` | `TypeOK` |
| | `StatusCorrect` | `StatusIsEarned` |
| | `CleanCorrect` | `CompletedIsClean` |
| | `ForwardCorrect` | `StatusMovesForward` |
| | `ImplementsCorrect` | `ImplementsLifecycle`: the automation refines `ReservationLifecycle` |
| `SimulationJobs_proofs` | `TypeCorrect` | `TypeOK` |
| | `SlotsCorrect` | `SlotsNotLeaked` |
| | `OvershootCorrect` | `OvershootIsBounded` |
| | `StoppedCorrect` | `AnsweredIsStopped`: no process computes for a request that was answered, streams included unless their client left |
| | `ObservedCorrect` | `ObservedBeforeWork` |
| | `LimitBounded` | `LimitButFor`: a lab runs its limit of simulations and at most one more for each cancelled one and each stream that was left |
| | `LimitKept` | `LimitHolds`, assuming `~MayCancel` and `~MayDisconnect` |
| | `ImplementsSlotsCorrect` | `ImplementsSlots`: the requests of each lab refine `LabSlots` |
| `DemoSlot_proofs` | `TypeCorrect` | `TypeOK` |
| | `CountedCorrect` | `CountedUntilLapse` |
| | `ExclusiveCorrect` | `ExclusiveUntilEarly` |
| `TokenRevocation_proofs` | `TypeCorrect` | `TypeOK` |
| | `TrackedCorrect` | `TrackedUntilDead` |
| | `ObservedCorrect` | `ObservedWasUsed` |
| | `NotCutCorrect` | `NotCutEarly` |
| `RealtimeSessions_proofs` | `SlotsCorrect` | `SlotsCoverSessions` |
| | `RegisteredCorrect` | `RegisteredWhileOpen` |
| | `RunnerCorrect` | `OneRunner` |
| | `AttachedCorrect` | `AttachedIsObserved` |
| | `RunningBounded` | `RunningButRevived`: running sessions and requests with a slot exceed the limit by no more than the sessions that were terminated and started again and the slots given back twice |
| | `TypeCorrect` | `RealtimeTypeOK` |
| `StationProxy_proofs` | `ObservedCorrect` | `ObservedBeforeCreated`, assuming `~Retries` |
| `Services_proofs` | `WithdrawnKeyCorrect` | `WithdrawnKeyDies` |
| | `CatalogCorrect` | `OneValidCatalog` |
| | `CredentialsCorrect` | `CredentialsSurvive` |
| | `UsersCorrect` | `ReservationKeepsUser` |
| | `AlertsCorrect` | `OutageIsAlerted` |
| | `RedeemedCorrect` | `RedeemedOnce` |
| | `LastsCorrect` | `LastsUntilRevoked`, assuming `~Slow` |
| | `ImplementsGrantCorrect` | `ImplementsGrant`: the exchange refines `AccessGrant`, assuming `~Slow` |

Why the invariants are what they are:

- **Outbox.** None of the safety properties is inductive alone. The invariant
  adds what ties the job to the table: the attempts the job read are those of
  the row as long as it is claimed, a row of the current run is SENDING and not
  due, and a job that holds an accepted answer works on a recorded observation.
  A row is reopened by `ClaimRows` only when no run is in progress, which is
  where exclusive claims come from. `Implements` maps each action to a step of
  the contract or to a stutter, with the invariant supplying the record behind
  a delivery.
- **Orchestrator.** The invariant follows one dispatch: what it holds as
  succeeded was done at the station (`DoneAsReported`), and from a release to
  the update nobody prepares the host for that reservation
  (`CleanSinceRelease`). The latter rests on the order of the two loops of
  `scan_once`: an end is dispatched when no start is left in the scan
  (`StartsFirst`), and a completed reservation is in none (`NotPreparedAgain`).
  `ForwardCorrect` needs only that the update repeats the status it was given
  in its `WHERE`. `ImplementsCorrect` takes the steps one kind at a time
  (`CommandRefines`, `ManualRefines`, `UpdateRefines`, `OthersRefine`): a
  command that ran is a `Prepare` or `Release`, whether or not its answer
  arrived; an update that meets its row is an `Activate` or `Complete`, and
  there the invariant supplies that the command was done and that no station
  waits for a completed reservation; everything else is a stutter.
- **Simulations.** Both counting properties compare a counter with the
  cardinality of the requests that hold a slot; `CountsAdmit`,
  `CountsFinalize` and `CountsCancel` are the three ways either side moves. A
  cancellation gives back a slot that its request still holds, which makes the
  first an inequality and is what the second counts; a job is cancelled at most
  once (`CancelledOnce`), and a decrement stops at zero. `LimitBounded` is the
  exact counterpart of the violation `simulation_cancel`: a computing process
  belongs to a request that still holds a slot, to one that was cancelled, or to
  a stream whose client left (`RunningHolds`), so the counter, which `Admit`
  keeps within the limit, bounds all but the latter two. `LimitKept` is the case
  in which there are none. A credential is in the cache only when the backend
  answered, so a request that was accepted, by its own confirmation or by
  another's, is recorded (`AcceptedIsRecorded`). `ImplementsSlotsCorrect` takes
  the steps by what they do to one request: a step moves it between states of
  the slots and the counter of its lab with it (`MovesImplement`), or changes
  neither (`StayMoves`, `StepMoves`); the counters of other labs stay.
- **Demo slot.** While no slot was given back early the counter, its lifetime
  and the session move together (`InStep`), because the counter takes the
  lifetime that the handoff has left. `CountedUntilLapse` survives the releases
  of several tunnels since only a session that is still there is counted down.
- **Tokens.** A row says REVOKED only of a dead token, and so does the job
  between the answer of Guacamole and the write (`RevokedIsDead`). The rows the
  job has yet to revoke still wait and are past their end (`JobOK`), which
  gives `NotCutCorrect`; the edge hands a token out only after its row was
  written (`ExposedHasRow`).

- **Realtime sessions.** A session that is registered and not observed is being
  confirmed by exactly one handler, and nobody else knows it
  (`BeingConfirmed`, `HandlersKnow`). What the clean-up loop is about to close
  stays open until it does, although the loop does not ask again: the window
  keeps its client's commands out and no handler is confirming it
  (`ClosingIsOpen`). That is why a slot is not given back twice. The code does
  not keep `RunningWithinLimit` (see [Findings](#findings)); `RunningBounded`
  says that terminated sessions which run again and slots that cancelled requests
  gave back twice are all that breaks it: only a create or a request adds to the
  counter, below the limit (`LimitStep`), and a session that runs and is not
  closed is registered and has its slot. `JobsStep` is the step of the requests:
  each release is of a slot that its request held, or that a cancel gave back
  before, and then the request moves to `Twice`.
- **Station proxy.** The context of a create must be there when its answer is
  read. `Once` says that of all messages on a client's socket, in both
  directions, at most one belongs to each pending request and none to another;
  the Station moves such a message from one direction to the other, and reading
  it removes both. A request that was used is not sent again (`Contexts`): this
  is where `~Retries` is needed.
- **Keys.** Keys that still hold the withdrawn one were asked for before the
  withdrawal, and what a fetch brought is at most `FetchTime` older than the
  time it is filed under (`OldKeys`).
- **Catalog.** The holder of the lock is the request between the two
  assignments, and it has made the first (`Publishing`); only validated hosts
  are ever published.
- **Credentials.** For every place of a rotation `SecretsPlaces` says which of
  store and backup is whole and under which key.
- **Users.** The account of a promised reservation is as promised, or the day of
  its end has passed (`AccountAsPromised`); a date is monotone in the moment it
  is computed from (`DatesGrow`).
- **Access codes.** A code that is being committed is held by its exchange, has
  been given to nobody and, for an FMU, has its file (`ExchangeHolds`); so a
  failing exchange removes no file that anybody relies on. Requests that
  were given up are still of the exchange's own handle, and none is on its way
  before it was asked (`AsksInTurn`). That a code brings one session needs less
  and no bound on the time of an exchange (`RedemptionInv`): a cookie goes out
  only with a served commit, and only one commit is served. In
  `ImplementsGrantCorrect` a served commit is a `Consume`, the answer that
  reaches the browser a `HandOut`, and saves, releases, removals, evictions and
  restarts are stutters: they touch no session that a client holds and that is
  still standing (`LiveIsStanding`), which is what `~Slow` is needed for.
- **Alerts.** A thread that is done has left no outage behind: when failures
  reach the threshold, an alert went out since the cooldown before the last of
  them, or some thread has yet to check or to send one, or one was lost under
  way (`OutageIsSeen`). A thread that found no recent alert is about to send one,
  so an alert that another thread already saw or sent covers it (`AlertCovers`).
  `AlertsAreFew` counts the recent alerts together with the threads that are
  about to send one: a check adds to the latter only if no alert is recent, so
  the sum never passes the number of threads, and time only makes it smaller
  (`FewerAreRecent`).

Only model-checked: liveness (`ImplementsLiveDelivery`, `EndedIsSettled`,
`SlotsReturn`, `OverlapIsRevoked`, `ExpiredIsRevoked`, `UsedIsObserved`,
`ExpiredIsClosed`, `DetachedIsReclaimed`), which is out of the prover's reach,
and the violations, each of which is a counterexample. Every safety property and
every refinement but for its liveness is proved.

The only hypotheses beyond the assumptions on the constants are `~Retries` in
`StationProxy_proofs`, `~Slow` in `LastsCorrect` and `ImplementsGrantCorrect`,
and those of `LimitKept`. The runs `station_proxy_retry` and `simulation_cancel`
show the first and the last to be needed; with `Slow = TRUE` TLC finds
`LastsUntilRevoked` and `ImplementsGrant` violated.

## Not modelled

Access decisions on a single request, health and history views, AAS document
generation, the web pages and the installation scripts keep no state across
steps, so there is nothing to interleave. Signature checks, Fernet and TLS are
libraries. blockchain-services, Marketplace, Guacamole and the Lab Stations
appear only as the choices the code has to cope with.

Within modelled components these are left out: single steps, inputs, outputs,
subscriptions and the event queue of a realtime session, and the rate limits of
creates, which refuse before anything changes; the batch limits of the scan and
of the revocation job; two requests that save credentials at once (the catalog
has the same pattern and is modelled); notifications of single critical
failures; the logout of manual users.

## Plan

What remains, in this order:

1. FMU proxy tickets and the download limits, on top of `RealtimeSessions`.
2. `ProxyRuntime`: the native FMU proxy against an abstract FMI session.
3. An abstract specification of a token's life (recorded, handed out, used,
   dead), which `TokenRevocation` implements, with its refinement proved.
4. `ObservedBeforeCreated` for the requests of a client that repeats others: with
   the repeated requestIds recorded, `~Retries` can be left out of the theorem.
