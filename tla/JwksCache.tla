----------------------------- MODULE JwksCache -----------------------------
(***************************************************************************)
(* The JWKS cache of the fmu-runner and the verification of a JWT          *)
(* (fmu-runner/auth.py).                                                   *)
(*                                                                         *)
(* Verifications run as coroutines of one loop and meet at the HTTP        *)
(* request for the keys: several may be on their way at once, each reads   *)
(* the issuer's keys at its own moment and stores them when it ends.  The  *)
(* model follows the tokens signed with one key, which the issuer          *)
(* withdraws at some moment.                                               *)
(***************************************************************************)
EXTENDS Integers

CONSTANTS
    Verifiers,      \* coroutines verifying a token signed with the key
    TTL,            \* JWKS_CACHE_TTL
    MaxStale,       \* JWKS_STALE_IF_ERROR_MAX_SECONDS
    FetchTime,      \* the longest a request for the keys lasts
    MaxClock        \* bound of the clock

ASSUME JwksAssumption ==
    /\ TTL \in Nat /\ MaxStale \in Nat /\ FetchTime \in Nat
    /\ MaxClock \in Nat

VARIABLES
    cache,          \* _jwks_cache
    verifier,       \* verifier[v]: the locals of verify_jwt_token and _fetch_jwks
    clock,          \* time.time()
    withdrawn       \* external: when the issuer withdrew the key, 0 while it serves it

jwksVars == <<cache, verifier, clock, withdrawn>>

\* What a key set says of the key.
KeySets == {"none", "with", "without"}

CacheType == [data: KeySets, fetchedAt: Nat, staleSince: Nat]

VerifierType ==
    [at: {"idle", "fetch", "force", "accepted"}, since: Nat, response: KeySets]

Resting == [at |-> "idle", since |-> 0, response |-> "none"]

JwksInit ==
    /\ cache = [data |-> "none", fetchedAt |-> 0, staleSince |-> 0]
    /\ verifier = [v \in Verifiers |-> Resting]
    /\ clock = 1
    /\ withdrawn = 0

Age == clock - cache.fetchedAt
Fetching(v) == verifier[v].at \in {"fetch", "force"}

Fetch(v, how) ==
    verifier' = [verifier EXCEPT ![v] = [at |-> how, since |-> clock, response |-> "none"]]

\* The token's key is looked for; if it is missing the keys are fetched once
\* more whatever the age of the cache, and if it is missing again the token is
\* rejected.
Decide(v, keys) ==
    IF keys = "with"
    THEN verifier' = [verifier EXCEPT ![v] = [Resting EXCEPT !.at = "accepted"]]
    ELSE IF verifier[v].at = "force"
    THEN verifier' = [verifier EXCEPT ![v] = Resting]
    ELSE Fetch(v, "force")

\* A fresh cache answers at once.
Verify(v) ==
    /\ verifier[v].at = "idle"
    /\ IF cache.data # "none" /\ Age < TTL
       THEN Decide(v, cache.data)
       ELSE Fetch(v, "fetch")
    /\ UNCHANGED <<cache, clock, withdrawn>>

\* External: the issuer answers with the keys it serves at that moment.
IssuerAnswers(v) ==
    /\ Fetching(v)
    /\ verifier[v].response = "none"
    /\ verifier' = [verifier EXCEPT ![v].response = IF withdrawn = 0 THEN "with" ELSE "without"]
    /\ UNCHANGED <<cache, clock, withdrawn>>

\* The answer is stored, also over a newer one.
FetchSucceeds(v) ==
    /\ Fetching(v)
    /\ verifier[v].response # "none"
    /\ cache' = [data |-> verifier[v].response, fetchedAt |-> clock, staleSince |-> 0]
    /\ Decide(v, verifier[v].response)
    /\ UNCHANGED <<clock, withdrawn>>

UsableWhenStale == cache.data # "none" /\ cache.fetchedAt > 0 /\ Age < MaxStale

\* Mutated form: serving the cache renews it.
FetchFailsRenews(v) ==
    /\ Fetching(v)
    /\ UsableWhenStale
    /\ cache' = [cache EXCEPT !.fetchedAt = clock, !.staleSince = clock]
    /\ Decide(v, cache.data)
    /\ UNCHANGED <<clock, withdrawn>>

\* The issuer cannot be reached: the cache serves a while longer.
FetchFails(v) ==
    /\ Fetching(v)
    /\ IF UsableWhenStale
       THEN /\ cache' = [cache EXCEPT !.staleSince = IF @ = 0 THEN clock ELSE @]
            /\ Decide(v, cache.data)
       ELSE /\ verifier' = [verifier EXCEPT ![v] = Resting]
            /\ UNCHANGED cache
    /\ UNCHANGED <<clock, withdrawn>>

Return(v) ==
    /\ verifier[v].at = "accepted"
    /\ verifier' = [verifier EXCEPT ![v] = Resting]
    /\ UNCHANGED <<cache, clock, withdrawn>>

Withdraw ==
    /\ withdrawn = 0
    /\ withdrawn' = clock
    /\ UNCHANGED <<cache, verifier, clock>>

\* Time passes between the awaits, and no request outlasts FetchTime.
Tick ==
    /\ clock < MaxClock
    /\ \A v \in Verifiers :
        /\ verifier[v].at # "accepted"
        /\ Fetching(v) => clock < verifier[v].since + FetchTime
    /\ clock' = clock + 1
    /\ UNCHANGED <<cache, verifier, withdrawn>>

JwksNext ==
    \/ \E v \in Verifiers :
        \/ Verify(v)
        \/ IssuerAnswers(v)
        \/ FetchSucceeds(v)
        \/ FetchFails(v)
        \/ Return(v)
    \/ Withdraw
    \/ Tick

JwksSpec == JwksInit /\ [][JwksNext]_jwksVars

\* jwks_health
Health ==
    IF cache.data = "none" \/ cache.fetchedAt = 0 \/ Age >= MaxStale THEN "DOWN"
    ELSE IF cache.staleSince # 0 \/ Age >= TTL THEN "DEGRADED"
    ELSE "UP"

-----------------------------------------------------------------------------
JwksTypeOK ==
    /\ cache \in CacheType
    /\ verifier \in [Verifiers -> VerifierType]
    /\ clock \in Nat
    /\ withdrawn \in Nat

LongestUse == IF TTL > MaxStale THEN TTL ELSE MaxStale

\* A token signed with a withdrawn key is accepted for a bounded time only: the
\* longest use of a cache and one request for the keys, however the answers of
\* concurrent requests overtake each other and whatever fails.  A health of UP
\* promises the shorter bound (fmu-runner/auth.py:124-204).
WithdrawnKeyDies ==
    withdrawn # 0 =>
        /\ (\E v \in Verifiers : verifier[v].at = "accepted") =>
                clock <= withdrawn + LongestUse + FetchTime
        /\ Health = "UP" /\ cache.data = "with" => clock < withdrawn + TTL + FetchTime

=============================================================================
