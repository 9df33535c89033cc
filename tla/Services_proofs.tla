--------------------------- MODULE Services_proofs ---------------------------
(***************************************************************************)
(* Proofs about six services that share no state: the JWKS cache, the host *)
(* catalog, the credential store, the temporary users, the alerts and the  *)
(* access-code exchange, for every number of coroutines, threads, users    *)
(* and exchanges, every lifetime of the cache, every threshold and window  *)
(* of the alerts and every set of keys.                                    *)
(***************************************************************************)
EXTENDS JwksCache, HostCatalog, WinrmSecrets, TemporaryUsers, FailureAlerts,
        AccessCodeExchange, FiniteSetTheorems, TLAPS

-----------------------------------------------------------------------------
(* The JWKS cache                                                          *)

\* Time goes forward, and a request for the keys does not outlast FetchTime.
JwksClocks ==
    /\ withdrawn <= clock
    /\ cache.fetchedAt <= clock
    /\ \A v \in Verifiers :
        Fetching(v) => verifier[v].since <= clock /\ clock <= verifier[v].since + FetchTime

\* A set of keys that has the withdrawn key was asked for before the withdrawal:
\* an answer on its way by its request, the cache by the request it came with.
OldKeys ==
    withdrawn # 0 =>
        /\ \A v \in Verifiers :
            Fetching(v) /\ verifier[v].response = "with" => verifier[v].since <= withdrawn
        /\ cache.data = "with" => cache.fetchedAt <= withdrawn + FetchTime

\* The first part of WithdrawnKeyDies.
AcceptedInTime ==
    withdrawn # 0 =>
        \A v \in Verifiers :
            verifier[v].at = "accepted" => clock <= withdrawn + LongestUse + FetchTime

JwksInv == JwksTypeOK /\ JwksClocks /\ OldKeys /\ AcceptedInTime

LEMMA LongestUseBounds ==
    LongestUse \in Nat /\ TTL <= LongestUse /\ MaxStale <= LongestUse
  BY JwksAssumption DEF LongestUse

\* A verification that looks for its key in keys of an age below one of the bounds.
LEMMA DecideInv ==
    ASSUME JwksInv, NEW v \in Verifiers, NEW keys \in KeySets, Decide(v, keys),
           UNCHANGED <<clock, withdrawn>>, cache' \in CacheType,
           keys = "with" /\ withdrawn # 0 => clock <= withdrawn + LongestUse + FetchTime,
           cache'.fetchedAt <= clock,
           cache'.data = "with" /\ withdrawn # 0 => cache'.fetchedAt <= withdrawn + FetchTime
    PROVE  JwksInv'
  <1> USE JwksAssumption DEF JwksInv, JwksTypeOK
  <1>1. verifier' \in [Verifiers -> VerifierType]
    BY DEF Decide, Fetch, Resting, VerifierType, KeySets
  <1>2. \A u \in Verifiers \ {v} : verifier'[u] = verifier[u]
    BY DEF Decide, Fetch
  <1>3. \/ verifier'[v].at = "idle"
        \/ verifier'[v].at = "accepted" /\ keys = "with"
        \/ verifier'[v].at = "force" /\ verifier'[v].since = clock
                                     /\ verifier'[v].response = "none"
    BY DEF Decide, Fetch, Resting, VerifierType
  <1>4. JwksClocks'
    BY <1>1, <1>2, <1>3 DEF JwksClocks, Fetching, VerifierType
  <1>5. OldKeys'
    BY <1>1, <1>2, <1>3 DEF OldKeys, Fetching
  <1>6. AcceptedInTime'
    BY <1>1, <1>2, <1>3, LongestUseBounds DEF AcceptedInTime, LongestUse
  <1> QED BY <1>1, <1>4, <1>5, <1>6

LEMMA JwksInvStep ==
    ASSUME JwksInv, [JwksNext]_jwksVars
    PROVE  JwksInv'
  <1> USE JwksAssumption DEF JwksInv, JwksTypeOK
  <1>1. ASSUME NEW v \in Verifiers, Verify(v)
        PROVE  JwksInv'
    <2>1. CASE cache.data # "none" /\ Age < TTL
      <3>1. Decide(v, cache.data) /\ UNCHANGED <<cache, clock, withdrawn>>
        BY <1>1, <2>1 DEF Verify
      <3>2. cache.data = "with" /\ withdrawn # 0 => clock <= withdrawn + LongestUse + FetchTime
        BY <2>1, LongestUseBounds DEF OldKeys, Age, CacheType
      <3> QED BY <3>1, <3>2, DecideInv DEF JwksClocks, OldKeys, CacheType
    <2>2. CASE ~(cache.data # "none" /\ Age < TTL)
      <3>1. verifier' = [verifier EXCEPT ![v] =
                            [at |-> "fetch", since |-> clock, response |-> "none"]]
            /\ UNCHANGED <<cache, clock, withdrawn>>
        BY <1>1, <2>2 DEF Verify, Fetch
      <3>2. verifier' \in [Verifiers -> VerifierType]
        BY <3>1 DEF VerifierType, KeySets
      <3> QED BY <3>1, <3>2 DEF JwksClocks, OldKeys, AcceptedInTime, Fetching, LongestUse
    <2> QED BY <2>1, <2>2
  <1>2. ASSUME NEW v \in Verifiers, IssuerAnswers(v)
        PROVE  JwksInv'
    <2>1. verifier' \in [Verifiers -> VerifierType]
      BY <1>2 DEF IssuerAnswers, VerifierType, KeySets
    <2> QED
      BY <1>2, <2>1
      DEF IssuerAnswers, JwksClocks, OldKeys, AcceptedInTime, Fetching, VerifierType, LongestUse
  <1>3. ASSUME NEW v \in Verifiers, FetchSucceeds(v)
        PROVE  JwksInv'
    <2> DEFINE keys == verifier[v].response
    <2>1. keys \in KeySets /\ cache' \in CacheType
      BY <1>3 DEF FetchSucceeds, VerifierType, CacheType
    <2>2. keys = "with" /\ withdrawn # 0 => clock <= withdrawn + FetchTime
      BY <1>3 DEF FetchSucceeds, OldKeys, JwksClocks, VerifierType, Fetching
    <2>3. keys = "with" /\ withdrawn # 0 => clock <= withdrawn + LongestUse + FetchTime
      BY <2>2, LongestUseBounds
    <2>4. cache'.fetchedAt = clock /\ cache'.data = keys
      BY <1>3 DEF FetchSucceeds
    <2>5. Decide(v, keys) /\ UNCHANGED <<clock, withdrawn>>
      BY <1>3 DEF FetchSucceeds
    <2> QED BY <2>1, <2>2, <2>3, <2>4, <2>5, DecideInv
  <1>4. ASSUME NEW v \in Verifiers, FetchFails(v)
        PROVE  JwksInv'
    <2>1. CASE UsableWhenStale
      <3>1. cache.data = "with" /\ withdrawn # 0 => clock <= withdrawn + LongestUse + FetchTime
        BY <2>1, LongestUseBounds DEF UsableWhenStale, OldKeys, Age, CacheType
      <3>2. cache' \in CacheType /\ cache'.data = cache.data /\ cache'.fetchedAt = cache.fetchedAt
        BY <1>4, <2>1 DEF FetchFails, CacheType
      <3>3. Decide(v, cache.data) /\ UNCHANGED <<clock, withdrawn>>
        BY <1>4, <2>1 DEF FetchFails
      <3> QED BY <3>1, <3>2, <3>3, DecideInv DEF JwksClocks, OldKeys, CacheType
    <2>2. CASE ~UsableWhenStale
      <3>1. verifier' = [verifier EXCEPT ![v] = Resting] /\ UNCHANGED <<cache, clock, withdrawn>>
        BY <1>4, <2>2 DEF FetchFails
      <3>2. verifier' \in [Verifiers -> VerifierType]
        BY <3>1 DEF Resting, VerifierType, KeySets
      <3> QED BY <3>1, <3>2 DEF JwksClocks, OldKeys, AcceptedInTime, Fetching, Resting, LongestUse
    <2> QED BY <2>1, <2>2
  <1>5. ASSUME NEW v \in Verifiers, Return(v)
        PROVE  JwksInv'
    <2>1. verifier' \in [Verifiers -> VerifierType]
      BY <1>5 DEF Return, Resting, VerifierType, KeySets
    <2> QED
      BY <1>5, <2>1
      DEF Return, JwksClocks, OldKeys, AcceptedInTime, Fetching, Resting, LongestUse
  <1>6. CASE Withdraw
    BY <1>6, LongestUseBounds
    DEF Withdraw, JwksClocks, OldKeys, AcceptedInTime, Fetching, LongestUse, CacheType, VerifierType
  <1>7. CASE Tick
    BY <1>7
    DEF Tick, JwksClocks, OldKeys, AcceptedInTime, Fetching, LongestUse, CacheType, VerifierType
  <1>8. CASE UNCHANGED jwksVars
    BY <1>8 DEF jwksVars, JwksClocks, OldKeys, AcceptedInTime, Fetching, LongestUse
  <1> QED
    BY <1>1, <1>2, <1>3, <1>4, <1>5, <1>6, <1>7, <1>8 DEF JwksNext

THEOREM JwksInvariance == JwksSpec => []JwksInv
  <1>1. JwksInit => JwksInv
    BY JwksAssumption
    DEF JwksInit, JwksInv, JwksTypeOK, JwksClocks, OldKeys, AcceptedInTime, Resting,
        Fetching, CacheType, VerifierType, KeySets
  <1>2. JwksInv /\ [JwksNext]_jwksVars => JwksInv'
    BY JwksInvStep
  <1> QED BY <1>1, <1>2, PTL DEF JwksSpec

\* A token signed with a withdrawn key is accepted for a bounded time only, for
\* every number of concurrent verifications and all lifetimes of the cache.
THEOREM WithdrawnKeyCorrect == JwksSpec => []WithdrawnKeyDies
  <1>1. JwksInv => WithdrawnKeyDies
    BY JwksAssumption, LongestUseBounds
    DEF JwksInv, JwksTypeOK, AcceptedInTime, OldKeys, JwksClocks, WithdrawnKeyDies,
        Health, Age, CacheType, KeySets
  <1> QED BY <1>1, JwksInvariance, PTL

-----------------------------------------------------------------------------
(* The host catalog                                                        *)

\* A request publishes what passed the validation, the holder of the lock is the
\* request between the two assignments, and the first of them is made.
Publishing ==
    /\ \A t \in Threads :
        /\ request[t].at \in {"publish", "finish"} => request[t].read \subseteq Valid
        /\ lock = t <=> request[t].at = "finish"
    /\ lock # NoThread => hosts = request[lock].read

CatalogInv == CatalogTypeOK /\ Publishing /\ OneValidCatalog

\* Steps that leave the registry, the lock and what is being published alone.
LEMMA CatalogStays ==
    ASSUME CatalogInv, CatalogTypeOK', UNCHANGED <<hosts, automator, lock>>,
           NEW t \in Threads, \A u \in Threads \ {t} : request'[u] = request[u],
           request[t].at \notin {"publish", "finish"}, request'[t].at # "finish",
           request'[t].at = "publish" => request'[t].read \subseteq Valid
    PROVE  CatalogInv'
  BY CatalogAssumption DEF CatalogInv, CatalogTypeOK, Publishing, OneValidCatalog

LEMMA CatalogInvStep ==
    ASSUME CatalogInv, [CatalogNext]_catalogVars
    PROVE  CatalogInv'
  <1> USE CatalogAssumption DEF CatalogInv, CatalogTypeOK
  <1>1. ASSUME NEW t \in Threads, NEW h \in Hosts, Provision(t, h)
        PROVE  CatalogInv'
    BY <1>1, CatalogStays DEF Provision, Step, Idle, RequestType, DynamicType
  <1>2. ASSUME NEW t \in Threads, OpenTemporary(t)
        PROVE  CatalogInv'
    BY <1>2, CatalogStays DEF OpenTemporary, Step, RequestType
  <1>3. ASSUME NEW t \in Threads, ReplaceDynamic(t)
        PROVE  CatalogInv'
    <2>1. dynamic' \in DynamicType
      <3>1. request[t] \in RequestType
        OBVIOUS
      <3>2. request[t].read \subseteq Hosts
        BY <3>1 DEF RequestType
      <3>3. dynamic' \in {[entries |-> request[t].read, parses |-> TRUE],
                         [entries |-> {}, parses |-> FALSE], dynamic}
        BY <1>3 DEF ReplaceDynamic
      <3>4. /\ [entries |-> request[t].read, parses |-> TRUE] \in DynamicType
            /\ [entries |-> {}, parses |-> FALSE] \in DynamicType
        BY <3>2, Zenon DEF DynamicType
      <3>5. dynamic \in DynamicType
        OBVIOUS
      <3> QED BY <3>3, <3>4, <3>5, Zenon
    <2>2. \E r \in {Idle, [at |-> "load", read |-> {}]} : Step(t, "write", r)
      BY <1>3 DEF ReplaceDynamic
    <2>3. temporary' = FALSE /\ UNCHANGED <<hosts, automator, lock, serving>>
      BY <1>3 DEF ReplaceDynamic
    <2>4. PICK r \in {Idle, [at |-> "load", read |-> {}]} : Step(t, "write", r)
      BY <2>2
    <2>5. r \in RequestType /\ r.at \in {"idle", "load"}
      BY DEF Idle, RequestType
    <2>6. /\ request' \in [Threads -> RequestType] /\ request'[t] = r
          /\ request[t].at = "write"
          /\ \A u \in Threads \ {t} : request'[u] = request[u]
      BY <2>4, <2>5 DEF Step
    <2>7. CatalogTypeOK'
      BY <2>1, <2>3, <2>6
    <2> QED BY <2>3, <2>5, <2>6, <2>7, CatalogStays
  <1>4. ASSUME NEW t \in Threads, Reload(t)
        PROVE  CatalogInv'
    BY <1>4, CatalogStays DEF Reload, Step, RequestType
  <1>5. ASSUME NEW t \in Threads, LoadConfig(t)
        PROVE  CatalogInv'
    <2>1. Loads => Merged \subseteq Valid /\ Merged \subseteq Hosts
      BY DEF Loads, Merged, DynamicType
    <2> QED BY <1>5, <2>1, CatalogStays DEF LoadConfig, Step, Idle, RequestType
  <1>6. ASSUME NEW t \in Threads, PublishHosts(t)
        PROVE  CatalogInv'
    BY <1>6 DEF PublishHosts, Step, RequestType, Publishing, OneValidCatalog
  <1>7. ASSUME NEW t \in Threads, PublishAutomator(t)
        PROVE  CatalogInv'
    BY <1>7 DEF PublishAutomator, Step, Idle, RequestType, Publishing, OneValidCatalog
  <1>8. CASE CatalogRestart
    <2>1. Loads => Merged \subseteq Valid /\ Merged \subseteq Hosts
      BY DEF Loads, Merged, DynamicType
    <2>2. Loads \in BOOLEAN
      BY DEF Loads, DynamicType
    <2> QED
      BY <1>8, <2>1, <2>2 DEF CatalogRestart, Idle, RequestType, Publishing, OneValidCatalog
  <1>9. CASE Repair
    BY <1>9 DEF Repair, DynamicType, Publishing, OneValidCatalog
  <1>10. CASE UNCHANGED catalogVars
    BY <1>10 DEF catalogVars, Publishing, OneValidCatalog
  <1> QED
    BY <1>1, <1>2, <1>3, <1>4, <1>5, <1>6, <1>7, <1>8, <1>9, <1>10 DEF CatalogNext

\* Whatever requests, torn files and restarts do, the API and the automator work
\* on one catalog of valid hosts, for every number of request threads.
THEOREM CatalogCorrect == CatalogSpec => []OneValidCatalog
  <1>1. CatalogInit => CatalogInv
    <2> SUFFICES ASSUME CatalogInit PROVE CatalogInv
      OBVIOUS
    <2>1. \A t \in Threads : request[t] = Idle
      BY DEF CatalogInit
    <2>2. CatalogTypeOK
      BY CatalogAssumption DEF CatalogInit, CatalogTypeOK, Idle, DynamicType, RequestType
    <2> QED
      BY <2>1, <2>2, CatalogAssumption
      DEF CatalogInit, CatalogInv, Publishing, OneValidCatalog, Idle
  <1>2. CatalogInv /\ [CatalogNext]_catalogVars => CatalogInv'
    BY CatalogInvStep
  <1>3. CatalogInv => OneValidCatalog
    BY DEF CatalogInv
  <1> QED BY <1>1, <1>2, <1>3, PTL DEF CatalogSpec

-----------------------------------------------------------------------------
(* The credential store                                                    *)

\* A store holds the credentials last written, all under one key.
Holds(s, k) ==
    \A r \in Refs : s[r].value = kept[r] /\ (kept[r] # Nothing => s[r].key = k)

\* Where the credentials are at each place of a rotation.
SecretsPlaces ==
    LET backedUp == backup.made /\ backup.key = deployed /\ Holds(backup.store, deployed)
    IN  /\ rotation.at \in {"none", "asked", "read", "backed"} => Holds(store, deployed)
        /\ rotation.at \in {"asked", "read"} => ~backup.made
        /\ rotation.at \in {"backed", "replaced", "done"} => backedUp
        /\ rotation.at = "replaced" => Holds(store, rotation.key)
        /\ rotation.at = "done" => newKeyFile # Nothing /\ Holds(store, newKeyFile)
        /\ rotation.at = "failed" =>
                \/ ~backup.made /\ Holds(store, deployed)
                \/ backedUp

SecretsInv ==
    /\ SecretsTypeOK
    /\ fernet \in {Nothing, deployed}
    /\ rotation.at \in {"read", "backed", "replaced"} => rotation.key # Nothing
    /\ SecretsPlaces

LEMMA WorkerKeyIsDeployed ==
    ASSUME SecretsInv
    PROVE  WorkerKey = deployed
  BY DEF SecretsInv, WorkerKey

\* The credentials under another key are the same credentials.
LEMMA Reencrypted ==
    ASSUME SecretsInv, NEW s \in StoreType, NEW k \in Keys, NEW l, Holds(s, l)
    PROVE  LET t == [r \in Refs |-> IF s[r].value # Nothing THEN [s[r] EXCEPT !.key = k] ELSE s[r]]
           IN  t \in StoreType /\ Holds(t, k)
  BY DEF Holds, StoreType

LEMMA SecretsInvStep ==
    ASSUME SecretsInv, [SecretsNext]_secretVars
    PROVE  SecretsInv'
  <1> USE SecretsAssumption DEF SecretsInv, SecretsTypeOK
  <1>1. ASSUME NEW r \in Refs, UseCredential(r)
        PROVE  SecretsInv'
    BY <1>1, WorkerKeyIsDeployed DEF UseCredential, SecretsPlaces, Holds
  <1>2. ASSUME NEW r \in Refs, NEW v \in Values, SaveCredential(r, v)
        PROVE  SecretsInv'
    <2>1. /\ store' = [store EXCEPT ![r] = [key |-> deployed, value |-> v]]
          /\ kept' = [kept EXCEPT ![r] = v]
      BY <1>2, WorkerKeyIsDeployed DEF SaveCredential
    <2>2. store' \in StoreType /\ kept' \in [Refs -> Values \cup {Nothing}]
      BY <2>1 DEF StoreType
    <2>3. Holds(store, deployed)
      BY <1>2 DEF SaveCredential, SecretsPlaces
    <2>4. Holds(store, deployed)'
      BY <1>2, <2>1, <2>3 DEF SaveCredential, Holds, StoreType
    <2> QED
      BY <1>2, <2>2, <2>4, WorkerKeyIsDeployed DEF SaveCredential, SecretsPlaces
  <1>3. CASE SecretsRestart
    BY <1>3 DEF SecretsRestart, SecretsPlaces, Holds
  <1>4. CASE AskRotation
    BY <1>4 DEF AskRotation, SecretsPlaces, Holds, RotationType
  <1>5. CASE ReadStore
    BY <1>5 DEF ReadStore, SecretsPlaces, Holds, RotationType
  <1>6. CASE BackUp
    BY <1>6 DEF BackUp, SecretsPlaces, Holds, RotationType
  <1>7. CASE ReplaceStore
    <2>1. rotation.key \in Keys /\ Holds(store, deployed)
      BY <1>7 DEF ReplaceStore, RotationType, SecretsPlaces
    <2>2. store' \in StoreType /\ Holds(store', rotation.key)
      BY <1>7, <2>1, Reencrypted DEF ReplaceStore, Stored
    <2>3. Holds(store, rotation.key)' /\ rotation'.at = "replaced" /\ rotation' \in RotationType
      BY <1>7, <2>2 DEF ReplaceStore, RotationType, Holds
    <2> QED BY <1>7, <2>2, <2>3 DEF ReplaceStore, SecretsPlaces, Holds, RotationType
  <1>8. CASE WriteKey
    BY <1>8 DEF WriteKey, SecretsPlaces, Holds, RotationType
  <1>9. CASE RotationDies
    BY <1>9 DEF RotationDies, SecretsPlaces, Holds, RotationType
  <1>10. CASE DeployKey
    BY <1>10 DEF DeployKey, SecretsPlaces, Holds, RotationType
  <1>11. CASE RestoreBackup
    BY <1>11 DEF RestoreBackup, SecretsPlaces, Holds, RotationType
  <1>12. CASE UNCHANGED secretVars
    BY <1>12 DEF secretVars, SecretsPlaces, Holds
  <1> QED
    BY <1>1, <1>2, <1>3, <1>4, <1>5, <1>6, <1>7, <1>8, <1>9, <1>10, <1>11, <1>12
    DEF SecretsNext

\* No credential is lost, whatever step a rotation dies at and however many
\* rotations there are, for every set of credentials and keys.
THEOREM CredentialsCorrect == SecretsSpec => []CredentialsSurvive
  <1>1. SecretsInit => SecretsInv
    BY SecretsAssumption
    DEF SecretsInit, SecretsInv, SecretsTypeOK, SecretsPlaces, Holds, StoreType, RotationType
  <1>2. SecretsInv /\ [SecretsNext]_secretVars => SecretsInv'
    BY SecretsInvStep
  <1>3. SecretsInv => CredentialsSurvive
    <2> SUFFICES ASSUME SecretsInv, NEW r \in Refs, kept[r] # Nothing
                 PROVE  /\ \/ store[r].value = kept[r] /\ store[r].key \in {deployed, newKeyFile}
                           \/ /\ backup.made
                              /\ backup.store[r] = [key |-> backup.key, value |-> kept[r]]
                        /\ rotation.at = "none" => Usable(r) /\ store[r].value = kept[r]
      BY DEF CredentialsSurvive
    <2>1. ASSUME NEW s \in StoreType, NEW k, Holds(s, k)
          PROVE  s[r] = [key |-> k, value |-> kept[r]]
      BY <2>1 DEF Holds, StoreType
    <2>2. /\ backup.store \in StoreType /\ store \in StoreType
          /\ rotation \in RotationType
      BY DEF SecretsInv, SecretsTypeOK
    <2>3. rotation.at \in {"none", "asked", "read", "backed"} => Holds(store, deployed)
      BY DEF SecretsInv, SecretsPlaces
    <2>4. rotation.at = "none" => Usable(r) /\ store[r].value = kept[r]
      <3>1. Holds(store, deployed) => store[r] = [key |-> deployed, value |-> kept[r]]
        BY <2>1, <2>2
      <3> QED BY <2>3, <3>1, WorkerKeyIsDeployed DEF Usable, Stored
    <2>5. \/ Holds(store, deployed)
          \/ backup.made /\ backup.key = deployed /\ Holds(backup.store, deployed)
      BY <2>2 DEF SecretsInv, SecretsPlaces, RotationType
    <2>6. CASE Holds(store, deployed)
      <3>1. store[r] = [key |-> deployed, value |-> kept[r]]
        BY <2>1, <2>2, <2>6
      <3> QED BY <2>4, <3>1
    <2>7. CASE backup.made /\ backup.key = deployed /\ Holds(backup.store, deployed)
      <3>1. backup.store[r] = [key |-> deployed, value |-> kept[r]]
        BY <2>1, <2>2, <2>7
      <3> QED BY <2>4, <2>7, <3>1
    <2> QED BY <2>5, <2>6, <2>7
  <1> QED BY <1>1, <1>2, <1>3, PTL DEF SecretsSpec

-----------------------------------------------------------------------------
(* Temporary users                                                         *)

\* What the database holds of u, in words of what its caller was told: an account
\* goes only with its provisioning, or in a clean-up after the day of its end.
AccountType ==
    [exists: BOOLEAN, disabled: BOOLEAN, until: Int \cup {NoDate}, may: SUBSET Connections]
PromiseType ==
    [active: BOOLEAN, end: Nat \cup {NoDate}, may: SUBSET Connections]

UsersTypeOK ==
    /\ account \in [Users -> AccountType]
    /\ promised \in [Users -> PromiseType]
    /\ hour \in Nat

AccountAsPromised(u) ==
    /\ promised[u].active =>
        \/ /\ account[u].exists /\ ~account[u].disabled
           /\ account[u].until = Date(promised[u].end)
           /\ promised[u].may \subseteq account[u].may
        \/ ~account[u].exists /\ promised[u].end # NoDate /\ Date(promised[u].end) < Today
    /\ account[u].may # {} => account[u].exists /\ promised[u].active

UsersInv == UsersTypeOK /\ \A u \in Users : AccountAsPromised(u)

\* A date is a number of days, and time does not go back to an earlier one.
LEMMA DatesGrow ==
    ASSUME NEW a \in Nat, NEW b \in Nat, a <= b
    PROVE  a \div Day \in Nat /\ a \div Day <= b \div Day
  <1> DEFINE q == a \div Day
             r == b \div Day
  <1>1. Day \in Nat \ {0}
    BY UsersAssumption
  <1>2. /\ q \in Int /\ r \in Int
        /\ Day * q <= a /\ a < Day * q + Day
        /\ Day * r <= b /\ b < Day * r + Day
    BY <1>1
  <1> HIDE DEF q, r
  <1>3. q >= 0
    <2>1. ASSUME q <= -1 PROVE FALSE
      <3>1. Day * q <= Day * (-1)
        BY <1>1, <1>2, <2>1
      <3> QED BY <1>1, <1>2, <3>1
    <2> QED BY <1>2, <2>1
  <1>4. q <= r
    <2>1. ASSUME r + 1 <= q PROVE FALSE
      <3>1. Day * (r + 1) <= Day * q /\ Day * (r + 1) = Day * r + Day
        BY <1>1, <1>2, <2>1
      <3> QED BY <1>1, <1>2, <3>1
    <2> QED BY <1>2, <2>1
  <1> QED BY <1>2, <1>3, <1>4 DEF q, r

LEMMA UsersInvStep ==
    ASSUME UsersInv, [UsersNext]_userVars
    PROVE  UsersInv'
  <1> USE UsersAssumption DEF UsersInv, UsersTypeOK
  <1>1. ASSUME NEW u \in Users, NEW c \in Connections, NEW end \in 0..MaxTime \cup {NoDate},
               NEW activate \in BOOLEAN, ProvisionUser(u, c, end, activate)
        PROVE  UsersInv'
    <2>1. Date(end) \in Int \cup {NoDate}
      BY DatesGrow DEF Date
    <2> DEFINE p == [active |-> activate, end |-> end, may |-> {c}]
               k == [exists |-> TRUE, disabled |-> ~activate, until |-> Date(end),
                     may |-> IF activate THEN account[u].may \cup {c} ELSE {}]
    <2>2. p \in PromiseType /\ k \in AccountType
      BY <2>1 DEF PromiseType, AccountType
    <2>3. account' = [account EXCEPT ![u] = k] /\ promised' = [promised EXCEPT ![u] = p]
      BY <1>1 DEF ProvisionUser
    <2>4. UNCHANGED hour
      BY <1>1 DEF ProvisionUser
    <2>5. /\ k.exists /\ k.disabled = ~activate /\ k.until = Date(end)
          /\ k.may = IF activate THEN account[u].may \cup {c} ELSE {}
          /\ p.active = activate /\ p.end = end /\ p.may = {c}
      OBVIOUS
    <2> HIDE DEF p, k
    <2>6. UsersTypeOK'
      BY <2>2, <2>3, <2>4
    <2>7. ASSUME NEW w \in Users
          PROVE  AccountAsPromised(w)'
      <3>1. CASE w = u
        BY <2>3, <2>5, <3>1 DEF AccountAsPromised, Date
      <3>2. CASE w # u
        BY <2>3, <2>4, <3>2 DEF AccountAsPromised, Date, Today
      <3> QED BY <3>1, <3>2
    <2> QED BY <2>6, <2>7
  <1>2. ASSUME NEW u \in Users, DeleteUser(u)
        PROVE  UsersInv'
    <2>1. UsersTypeOK'
      BY <1>2 DEF DeleteUser, NoAccount, NoPromise, AccountType, PromiseType
    <2>2. ASSUME NEW w \in Users
          PROVE  AccountAsPromised(w)'
      <3>1. CASE w = u
        BY <1>2, <3>1 DEF DeleteUser, NoAccount, NoPromise, AccountAsPromised
      <3>2. CASE w # u
        BY <1>2, <3>2 DEF DeleteUser, AccountAsPromised, Date, Today
      <3> QED BY <3>1, <3>2
    <2> QED BY <2>1, <2>2
  <1>3. CASE CleanupUsers
    <2>1. UsersTypeOK'
      BY <1>3 DEF CleanupUsers, NoAccount, AccountType
    <2>2. ASSUME NEW w \in Users
          PROVE  AccountAsPromised(w)'
      <3>1. promised'[w] = promised[w] /\ Today' = Today
        BY <1>3 DEF CleanupUsers, Today
      <3>2. CASE Outdated(w)
        <4>1. account'[w] = NoAccount
          BY <1>3, <3>2 DEF CleanupUsers
        <4>2. account'[w].may = {} /\ ~account'[w].exists
          BY <4>1 DEF NoAccount
        <4> QED BY <3>1, <3>2, <4>2 DEF AccountAsPromised, Outdated, Date
      <3>3. CASE ~Outdated(w)
        <4>1. account'[w] = account[w]
          BY <1>3, <3>3 DEF CleanupUsers
        <4> QED BY <3>1, <4>1 DEF AccountAsPromised, Date
      <3> QED BY <3>2, <3>3
    <2> QED BY <2>1, <2>2
  <1>4. CASE HourPasses
    <2>1. UsersTypeOK' /\ UNCHANGED <<account, promised>>
      BY <1>4 DEF HourPasses
    <2>2. Today \in Int /\ Today' \in Int /\ Today <= Today'
      BY <1>4, <2>1, DatesGrow DEF HourPasses, Today
    <2>3. ASSUME NEW w \in Users
          PROVE  AccountAsPromised(w)'
      <3>1. promised[w].end # NoDate => Date(promised[w].end) \in Int
        BY DatesGrow DEF Date, PromiseType
      <3> QED BY <2>1, <2>2, <3>1 DEF AccountAsPromised, Date
    <2> QED BY <2>1, <2>3
  <1>5. CASE UNCHANGED userVars
    BY <1>5 DEF userVars, AccountAsPromised, Date, Today
  <1> QED BY <1>1, <1>2, <1>3, <1>4, <1>5 DEF UsersNext

\* The clean-up takes no account from a reservation that still runs, for every
\* number of users and connections and every length of a day.
THEOREM UsersCorrect == UsersSpec => []ReservationKeepsUser
  <1>1. UsersInit => UsersInv
    BY UsersAssumption DEF UsersInit, UsersInv, UsersTypeOK, NoAccount, NoPromise, AccountType,
           PromiseType, AccountAsPromised
  <1>2. UsersInv => ReservationKeepsUser
    <2> SUFFICES ASSUME UsersInv, NEW u \in Users, promised[u].active,
                        promised[u].end = NoDate \/ hour <= promised[u].end
                 PROVE  account[u].exists /\ ~account[u].disabled
                        /\ promised[u].may \subseteq account[u].may
      BY DEF ReservationKeepsUser, UsersInv, AccountAsPromised
    <2>1. promised[u].end \in Nat \cup {NoDate} /\ hour \in Nat
      BY DEF UsersInv, UsersTypeOK, PromiseType
    <2>2. ASSUME promised[u].end # NoDate
          PROVE  ~(Date(promised[u].end) < Today)
      <3>1. promised[u].end \in Nat /\ hour <= promised[u].end
        BY <2>1, <2>2
      <3>2. /\ hour \div Day \in Nat /\ promised[u].end \div Day \in Nat
            /\ hour \div Day <= promised[u].end \div Day
        BY <2>1, <3>1, DatesGrow
      <3> QED BY <2>2, <3>2 DEF Date, Today
    <2> QED BY <2>2 DEF UsersInv, AccountAsPromised
  <1> QED BY <1>1, <1>2, UsersInvStep, PTL DEF UsersSpec

-----------------------------------------------------------------------------
(* Alerts                                                                  *)

AlertsTypeOK ==
    /\ moment \in Nat /\ cut \in BOOLEAN
    /\ failures \in Seq(0..moment) /\ alerts \in Seq(0..moment)
    /\ recorder \in [Recorders -> [at: {"working", "check", "send"}, posts: Nat]]

Sending == {t \in Recorders : recorder[t].at = "send"}

\* Some alert is younger than the last failure but for the cooldown.
AlertCovers ==
    \E n \in DOMAIN alerts : \A i \in DOMAIN failures : alerts[n] >= failures[i] - Cooldown

OutageIsSeen ==
    \/ cut
    \/ Failing < Threshold
    \/ AlertCovers
    \/ \E t \in Recorders : recorder[t].at # "working"

\* A thread that sends counts like the alert it is about to record.
AlertsAreFew ==
    Cardinality(Since(alerts, Cooldown)) + Cardinality(Sending) <= Cardinality(Recorders)

AlertsInv == AlertsTypeOK /\ OutageIsSeen /\ AlertsAreFew

LEMMA RowsAreCounted ==
    ASSUME NEW n \in Nat, NEW S \in SUBSET (1..n)
    PROVE  IsFiniteSet(S) /\ Cardinality(S) \in Nat
  <1>1. IsFiniteSet(1..n)
    BY FS_Interval
  <1>2. IsFiniteSet(S)
    BY <1>1, FS_Subset
  <1> QED
    BY <1>2, FS_CardinalityType

LEMMA RecordersAreCounted ==
    ASSUME NEW S \in SUBSET Recorders
    PROVE  /\ IsFiniteSet(S) /\ Cardinality(S) \in Nat
           /\ Cardinality(S) <= Cardinality(Recorders)
  BY AlertAssumption, FS_Subset, FS_CardinalityType DEF AlertAssumption

\* What can still be seen only shrinks when time passes, and no row is added.
LEMMA FewerAreRecent ==
    ASSUME NEW n \in Nat, NEW S \in SUBSET (1..n), NEW T \in SUBSET S
    PROVE  Cardinality(T) <= Cardinality(S)
  BY RowsAreCounted, FS_Subset

LEMMA RecentAreCounted ==
    ASSUME AlertsTypeOK
    PROVE  Failing \in Nat /\ Cardinality(Since(alerts, Cooldown)) \in Nat
  <1>1. Len(failures) \in Nat /\ DOMAIN failures = 1..Len(failures)
    BY DEF AlertsTypeOK
  <1>2. Len(alerts) \in Nat /\ DOMAIN alerts = 1..Len(alerts)
    BY DEF AlertsTypeOK
  <1>3. Since(failures, Window) \in SUBSET (1..Len(failures))
    BY <1>1 DEF Since
  <1>4. Since(alerts, Cooldown) \in SUBSET (1..Len(alerts))
    BY <1>2 DEF Since
  <1> QED
    BY <1>1, <1>2, <1>3, <1>4, RowsAreCounted DEF Failing

LEMMA AlertsTypeStep ==
    ASSUME AlertsTypeOK, [AlertsNext]_alertVars
    PROVE  AlertsTypeOK'
  <1> USE DEF AlertsTypeOK
  <1>a. ASSUME NEW t \in Recorders, RecordFailure(t) PROVE AlertsTypeOK'
    <2>1. failures' \in Seq(0..moment)
      <3>1. moment \in 0..moment
        OBVIOUS
      <3> QED
        BY <1>a, <3>1 DEF RecordFailure
    <2>2. recorder' \in [Recorders -> [at: {"working", "check", "send"}, posts: Nat]]
      BY <1>a DEF RecordFailure
    <2> QED
      BY <1>a, <2>1, <2>2 DEF RecordFailure
  <1>b. ASSUME NEW t \in Recorders, CheckFailures(t) PROVE AlertsTypeOK'
    BY <1>b DEF CheckFailures, Working
  <1>c. ASSUME NEW t \in Recorders, PostAgain(t) PROVE AlertsTypeOK'
    BY <1>c DEF PostAgain
  <1>d. ASSUME NEW t \in Recorders, RecordAlert(t) PROVE AlertsTypeOK'
    BY <1>d DEF RecordAlert, Working
  <1>e. ASSUME NEW t \in Recorders, AlertLost(t) PROVE AlertsTypeOK'
    BY <1>e DEF AlertLost, Working
  <1>f. CASE AlertProcessDies
    BY <1>f DEF AlertProcessDies, Working
  <1>g. CASE AlertTick
    <2>1. moment' = moment + 1 /\ UNCHANGED <<failures, alerts, recorder, cut>>
      BY <1>g DEF AlertTick
    <2>2. ASSUME NEW s \in Seq(0..moment) PROVE s \in Seq(0..moment + 1)
      OBVIOUS
    <2> QED
      BY <2>1, <2>2
  <1>h. CASE UNCHANGED alertVars
    BY <1>h DEF alertVars
  <1> QED
    BY <1>a, <1>b, <1>c, <1>d, <1>e, <1>f, <1>g, <1>h DEF AlertsNext

LEMMA OutageSeenStep ==
    ASSUME AlertsInv, [AlertsNext]_alertVars
    PROVE  OutageIsSeen'
  <1> USE AlertAssumption DEF AlertAssumption
  <1>0. AlertsTypeOK /\ OutageIsSeen
    BY DEF AlertsInv
  <1>1. /\ \A i \in DOMAIN failures : failures[i] \in 0..moment
        /\ \A i \in DOMAIN alerts : alerts[i] \in 0..moment
        /\ moment \in Nat
    BY <1>0 DEF AlertsTypeOK
  <1>2. ASSUME NEW t \in Recorders, recorder'[t].at # "working" PROVE OutageIsSeen'
    BY <1>2 DEF OutageIsSeen
  <1>3. ASSUME AlertCovers' PROVE OutageIsSeen'
    BY <1>3 DEF OutageIsSeen
  <1>a. ASSUME NEW t \in Recorders, RecordFailure(t) PROVE OutageIsSeen'
    <2>1. recorder'[t].at = "check"
      BY <1>a, <1>0 DEF RecordFailure, AlertsTypeOK
    <2> QED
      BY <2>1, <1>2
  <1>b. ASSUME NEW t \in Recorders, CheckFailures(t) PROVE OutageIsSeen'
    <2>1. CASE ShouldSend
      <3>1. recorder'[t].at = "send"
        BY <1>b, <2>1, <1>0 DEF CheckFailures, AlertsTypeOK
      <3> QED
        BY <3>1, <1>2
    <2>2. CASE ~ShouldSend /\ Since(alerts, Cooldown) = {}
      <3>1. ~(Failing >= Threshold)
        BY <2>2 DEF ShouldSend
      <3>2. Failing \in Nat
        BY <1>0, RecentAreCounted
      <3>3. Failing < Threshold
        BY <3>1, <3>2
      <3>4. Failing' = Failing
        BY <1>b DEF CheckFailures, Failing, Since
      <3> QED
        BY <3>3, <3>4 DEF OutageIsSeen
    <2>3. CASE Since(alerts, Cooldown) # {}
      <3>1. PICK n \in DOMAIN alerts : alerts[n] >= moment - Cooldown
        BY <2>3 DEF Since
      <3>2. \A i \in DOMAIN failures : alerts[n] >= failures[i] - Cooldown
        BY <3>1, <1>1
      <3>3. AlertCovers'
        BY <3>2, <1>b DEF CheckFailures, AlertCovers
      <3> QED
        BY <3>3, <1>3
    <2> QED
      BY <2>1, <2>2, <2>3
  <1>c. ASSUME NEW t \in Recorders, PostAgain(t) PROVE OutageIsSeen'
    <2>1. recorder'[t].at = "send"
      BY <1>c, <1>0 DEF PostAgain, AlertsTypeOK
    <2> QED
      BY <2>1, <1>2
  <1>d. ASSUME NEW t \in Recorders, RecordAlert(t) PROVE OutageIsSeen'
    <2>1. alerts' = Append(alerts, moment) /\ failures' = failures
      BY <1>d DEF RecordAlert
    <2>2. Len(alerts) + 1 \in DOMAIN alerts' /\ alerts'[Len(alerts) + 1] = moment
      BY <2>1, <1>0 DEF AlertsTypeOK
    <2>3. \A i \in DOMAIN failures' : alerts'[Len(alerts) + 1] >= failures'[i] - Cooldown
      BY <2>1, <2>2, <1>1
    <2>4. AlertCovers'
      BY <2>2, <2>3 DEF AlertCovers
    <2> QED
      BY <2>4, <1>3
  <1>e. ASSUME NEW t \in Recorders, AlertLost(t) PROVE OutageIsSeen'
    BY <1>e DEF AlertLost, OutageIsSeen
  <1>f. CASE AlertProcessDies
    <2>1. CASE \E t \in Recorders : recorder[t].at # "working"
      BY <1>f, <2>1 DEF AlertProcessDies, OutageIsSeen
    <2>2. CASE cut
      BY <1>f, <2>2 DEF AlertProcessDies, OutageIsSeen
    <2>3. CASE AlertCovers
      BY <1>f, <2>3 DEF AlertProcessDies, OutageIsSeen, AlertCovers
    <2>4. CASE Failing < Threshold
      BY <1>f, <2>4 DEF AlertProcessDies, OutageIsSeen, Failing, Since
    <2> QED
      BY <1>0, <2>1, <2>2, <2>3, <2>4 DEF OutageIsSeen
  <1>g. CASE AlertTick
    <2>1. moment' = moment + 1 /\ UNCHANGED <<failures, alerts, recorder, cut>>
      BY <1>g DEF AlertTick
    <2>2. CASE Failing < Threshold
      <3>1. PICK S : S = Since(failures, Window)
        OBVIOUS
      <3>2. PICK T : T = Since(failures, Window)'
        OBVIOUS
      <3>3. T = {i \in DOMAIN failures : failures[i] >= (moment + 1) - Window}
        BY <3>2, <2>1 DEF Since
      <3>4. T \in SUBSET S
        BY <3>1, <3>3, <1>1 DEF Since
      <3>5. Len(failures) \in Nat /\ S \in SUBSET (1..Len(failures))
        BY <3>1, <1>0 DEF Since, AlertsTypeOK
      <3>6. T \in SUBSET (1..Len(failures))
        BY <3>4, <3>5
      <3>7. Cardinality(T) <= Cardinality(S) /\ Cardinality(T) \in Nat /\ Cardinality(S) \in Nat
        BY <3>4, <3>5, <3>6, RowsAreCounted, FewerAreRecent
      <3>8. Failing' = Cardinality(T) /\ Failing = Cardinality(S)
        BY <3>1, <3>2 DEF Failing
      <3>9. Failing' < Threshold
        BY <3>7, <3>8, <2>2
      <3> QED
        BY <3>9, <2>1 DEF OutageIsSeen
    <2>3. CASE ~(Failing < Threshold)
      <3>1. cut \/ AlertCovers \/ \E t \in Recorders : recorder[t].at # "working"
        BY <1>0, <2>3 DEF OutageIsSeen
      <3> QED
        BY <3>1, <2>1 DEF OutageIsSeen, AlertCovers
    <2> QED
      BY <2>2, <2>3
  <1>h. CASE UNCHANGED alertVars
    BY <1>0, <1>h DEF alertVars, OutageIsSeen, AlertCovers, Failing, Since
  <1> QED
    BY <1>a, <1>b, <1>c, <1>d, <1>e, <1>f, <1>g, <1>h DEF AlertsNext

LEMMA AlertsFewStep ==
    ASSUME AlertsInv, [AlertsNext]_alertVars
    PROVE  AlertsAreFew'
  <1>0. AlertsTypeOK /\ AlertsAreFew
    BY DEF AlertsInv
  <1> PICK A : A = Since(alerts, Cooldown)
    OBVIOUS
  <1> PICK B : B = Since(alerts, Cooldown)'
    OBVIOUS
  <1> PICK C : C = Sending
    OBVIOUS
  <1> PICK D : D = Sending'
    OBVIOUS
  <1>1. Len(alerts) \in Nat /\ A \in SUBSET (1..Len(alerts))
    BY <1>0 DEF Since, AlertsTypeOK
  <1>2. C \in SUBSET Recorders /\ D \in SUBSET Recorders
    BY DEF Sending
  <1>3. /\ IsFiniteSet(A) /\ IsFiniteSet(C) /\ IsFiniteSet(D)
        /\ Cardinality(A) \in Nat /\ Cardinality(C) \in Nat /\ Cardinality(D) \in Nat
        /\ Cardinality(D) <= Cardinality(Recorders) /\ Cardinality(Recorders) \in Nat
    <2>1. Cardinality(Recorders) \in Nat
      BY RecordersAreCounted
    <2> QED
      BY <1>1, <1>2, <2>1, RowsAreCounted, RecordersAreCounted
  <1>4. Cardinality(A) + Cardinality(C) <= Cardinality(Recorders)
    BY <1>0 DEF AlertsAreFew
  <1>5. SUFFICES Cardinality(B) + Cardinality(D) <= Cardinality(Recorders)
    BY <1>5 DEF AlertsAreFew
  <1>6. ASSUME B \in SUBSET A, D \in SUBSET C
        PROVE  Cardinality(B) + Cardinality(D) <= Cardinality(Recorders)
    <2>1. Cardinality(B) <= Cardinality(A) /\ Cardinality(D) <= Cardinality(C)
      BY <1>3, <1>6, FS_Subset
    <2>2. Cardinality(B) \in Nat
      BY <1>3, <1>6, FS_Subset, FS_CardinalityType
    <2> QED
      BY <2>1, <2>2, <1>3, <1>4
  <1>7. ASSUME UNCHANGED <<alerts, moment>> PROVE B = A
    BY <1>7 DEF Since
  <1>a. ASSUME NEW t \in Recorders, RecordFailure(t)
        PROVE  B \in SUBSET A /\ D \in SUBSET C
    <2>1. UNCHANGED <<alerts, moment>>
      BY <1>a DEF RecordFailure
    <2>2. D \in SUBSET C
      BY <1>a, <1>0 DEF RecordFailure, Sending, AlertsTypeOK
    <2> QED
      BY <1>7, <2>1, <2>2
  <1>b. ASSUME NEW t \in Recorders, CheckFailures(t)
        PROVE  Cardinality(B) + Cardinality(D) <= Cardinality(Recorders)
    <2>1. UNCHANGED <<alerts, moment>>
      BY <1>b DEF CheckFailures
    <2>2. CASE ShouldSend
      <3>1. B = {}
        BY <1>7, <2>1, <2>2 DEF ShouldSend
      <3>2. Cardinality(B) = 0
        BY <3>1, FS_EmptySet
      <3> QED
        BY <3>2, <1>3
    <2>3. CASE ~ShouldSend
      <3>1. D \in SUBSET C
        BY <1>b, <2>3, <1>0 DEF CheckFailures, Sending, AlertsTypeOK, Working
      <3> QED
        BY <3>1, <1>6, <1>7, <2>1
    <2> QED
      BY <2>2, <2>3
  <1>c. ASSUME NEW t \in Recorders, PostAgain(t)
        PROVE  B \in SUBSET A /\ D \in SUBSET C
    <2>1. UNCHANGED <<alerts, moment>>
      BY <1>c DEF PostAgain
    <2>2. D \in SUBSET C
      BY <1>c, <1>0 DEF PostAgain, Sending, AlertsTypeOK
    <2> QED
      BY <1>7, <2>1, <2>2
  <1>d. ASSUME NEW t \in Recorders, RecordAlert(t)
        PROVE  Cardinality(B) + Cardinality(D) <= Cardinality(Recorders)
    <2>0. alerts' = Append(alerts, moment) /\ moment' = moment
      BY <1>d DEF RecordAlert
    <2>1. B \in SUBSET (A \cup {Len(alerts) + 1})
      BY <2>0, <1>0 DEF Since, AlertsTypeOK
    <2>2. /\ IsFiniteSet(A \cup {Len(alerts) + 1})
          /\ Cardinality(A \cup {Len(alerts) + 1}) <= Cardinality(A) + 1
      <3>1. PICK n : n = Len(alerts) + 1
        OBVIOUS
      <3>2. /\ IsFiniteSet(A \cup {n})
            /\ Cardinality(A \cup {n}) = IF n \in A THEN Cardinality(A) ELSE Cardinality(A) + 1
        BY <1>3, FS_AddElement
      <3> QED
        BY <1>3, <3>1, <3>2
    <2>3. Cardinality(B) <= Cardinality(A \cup {Len(alerts) + 1})
          /\ Cardinality(B) \in Nat /\ Cardinality(A \cup {Len(alerts) + 1}) \in Nat
      BY <2>1, <2>2, FS_Subset, FS_CardinalityType
    <2>4. t \in C
      BY <1>d DEF RecordAlert, Sending
    <2>5. D = C \ {t}
      BY <1>d, <1>0 DEF RecordAlert, Sending, AlertsTypeOK, Working
    <2>6. Cardinality(D) = Cardinality(C) - 1
      BY <2>4, <2>5, <1>3, FS_RemoveElement
    <2> QED
      BY <2>2, <2>3, <2>6, <1>3, <1>4
  <1>e. ASSUME NEW t \in Recorders, AlertLost(t)
        PROVE  B \in SUBSET A /\ D \in SUBSET C
    <2>1. UNCHANGED <<alerts, moment>>
      BY <1>e DEF AlertLost
    <2>2. D \in SUBSET C
      BY <1>e, <1>0 DEF AlertLost, Sending, AlertsTypeOK, Working
    <2> QED
      BY <1>7, <2>1, <2>2
  <1>f. CASE AlertProcessDies
    <2>1. UNCHANGED <<alerts, moment>>
      BY <1>f DEF AlertProcessDies
    <2>2. D = {}
      BY <1>f DEF AlertProcessDies, Sending, Working
    <2> QED
      BY <1>6, <1>7, <2>1, <2>2
  <1>g. CASE AlertTick
    <2>1. moment' = moment + 1 /\ UNCHANGED <<alerts, recorder>>
      BY <1>g DEF AlertTick
    <2>2. B = {n \in DOMAIN alerts : alerts[n] >= (moment + 1) - Cooldown}
      BY <2>1 DEF Since
    <2>3. B \in SUBSET A
      <3>1. \A n \in DOMAIN alerts : alerts[n] \in Int
        BY <1>0 DEF AlertsTypeOK
      <3>2. moment \in Int /\ Cooldown \in Int
        BY <1>0, AlertAssumption DEF AlertsTypeOK
      <3>3. \A n \in DOMAIN alerts :
                alerts[n] >= (moment + 1) - Cooldown => alerts[n] >= moment - Cooldown
        BY <3>1, <3>2
      <3> QED
        BY <2>2, <3>3 DEF Since
    <2>4. D = C
      BY <2>1 DEF Sending
    <2> QED
      BY <1>6, <2>3, <2>4
  <1>h. CASE UNCHANGED alertVars
    <2>1. B = A /\ D = C
      BY <1>h, <1>7 DEF alertVars, Sending
    <2> QED
      BY <1>6, <2>1
  <1> QED
    BY <1>6, <1>a, <1>b, <1>c, <1>d, <1>e, <1>f, <1>g, <1>h DEF AlertsNext

\* AlertsInv is inductive.
THEOREM AlertsInvariance == AlertsSpec => []AlertsInv
  <1>1. AlertsInit => AlertsInv
    <2> SUFFICES ASSUME AlertsInit PROVE AlertsInv
      OBVIOUS
    <2>1. AlertsTypeOK
      <3>1. /\ moment \in Nat /\ cut \in BOOLEAN
            /\ failures \in Seq(0..moment) /\ alerts \in Seq(0..moment)
        <4>1. failures = <<>> /\ alerts = <<>> /\ moment = 0 /\ cut = FALSE
          BY DEF AlertsInit
        <4>2. <<>> \in Seq(0..moment)
          OBVIOUS
        <4> QED
          BY <4>1, <4>2
      <3>2. recorder \in [Recorders -> [at: {"working", "check", "send"}, posts: Nat]]
        BY DEF AlertsInit, Working
      <3> QED
        BY <3>1, <3>2 DEF AlertsTypeOK
    <2>2. Since(alerts, Cooldown) = {} /\ Since(failures, Window) = {} /\ Sending = {}
      BY DEF AlertsInit, Since, Sending, Working
    <2>3. OutageIsSeen
      BY <2>2, FS_EmptySet, AlertAssumption DEF OutageIsSeen, Failing, AlertAssumption
    <2>4. AlertsAreFew
      BY <2>2, FS_EmptySet, AlertAssumption, FS_CardinalityType
         DEF AlertsAreFew, AlertAssumption
    <2> QED
      BY <2>1, <2>3, <2>4 DEF AlertsInv
  <1>2. AlertsInv /\ [AlertsNext]_alertVars => AlertsInv'
    BY AlertsTypeStep, OutageSeenStep, AlertsFewStep DEF AlertsInv
  <1> QED
    BY <1>1, <1>2, PTL DEF AlertsSpec

\* No outage stays silent and none floods: OutageIsAlerted.
THEOREM AlertsCorrect == AlertsSpec => []OutageIsAlerted
  <1>1. AlertsInv => OutageIsAlerted
    <2> SUFFICES ASSUME AlertsInv PROVE OutageIsAlerted
      OBVIOUS
    <2>1. Failing \in Nat /\ Cardinality(Since(alerts, Cooldown)) \in Nat
      BY RecentAreCounted DEF AlertsInv
    <2>2. Cardinality(Sending) \in Nat /\ Cardinality(Recorders) \in Nat
      BY RecordersAreCounted DEF Sending
    <2>3. Cardinality(Since(alerts, Cooldown)) <= Cardinality(Recorders)
      BY <2>1, <2>2 DEF AlertsInv, AlertsAreFew
    <2>4. ASSUME ~cut, Failing >= Threshold, \A t \in Recorders : recorder[t].at = "working"
          PROVE  AlertCovers
      <3>1. ~(Failing < Threshold)
        BY <2>4, <2>1, AlertAssumption DEF AlertAssumption
      <3> QED
        BY <2>4, <3>1 DEF AlertsInv, OutageIsSeen
    <2> QED
      BY <2>3, <2>4 DEF OutageIsAlerted, AlertCovers
  <1> QED
    BY <1>1, AlertsInvariance, PTL

-----------------------------------------------------------------------------
(* The access-code exchange                                                *)

\* The requests of an exchange are on their way only after it has asked them, one
\* after the other.
AsksInTurn(x) ==
    /\ \A what \in {"redeem", "commit", "release"} :
        Pending(x, what) => exchange[x].at # "new" /\ exchange[x].code \in Codes
    /\ exchange[x].at = "redeem" => ~Pending(x, "commit") /\ ~Pending(x, "release")
    /\ exchange[x].at = "commit" => ~Pending(x, "release")

\* However long an exchange takes: one that is told of its commit has consumed the
\* code, and nobody was given it.
Consumes(x) ==
    LET e == exchange[x]
        k == exchange[x].code
    IN  /\ e.at \in {"redeem", "commit", "release"} => k \in Codes
        /\ e.at = "commit" /\ e.answer = "ok" =>
            code[k].holder = x /\ code[k].consumed /\ given[k] = 0

GivenOnce(k) ==
    /\ code[k].consumed => code[k].holder # NoCode
    /\ given[k] <= 1
    /\ given[k] = 1 => code[k].consumed

RedemptionInv ==
    /\ AccessTypeOK
    /\ \A x \in Exchanges : Consumes(x) /\ AsksInTurn(x)
    /\ \A k \in Codes : GivenOnce(k)

\* An answer of blockchain-services changes one exchange only.
LEMMA ServesOne ==
    ASSUME RedemptionInv, NEW x \in Exchanges, NEW what \in {"redeem", "commit", "release"},
           NEW result \in {"ok", "refused"}, Serves(x, what, result)
    PROVE  /\ exchange' \in [Exchanges -> ExchangeType] /\ asked' \subseteq Query
           /\ \A y \in Exchanges : y # x => exchange'[y] = exchange[y]
           /\ exchange'[x].at = exchange[x].at /\ exchange'[x].code = exchange[x].code
           /\ exchange'[x].answer = IF exchange[x].at = what THEN result ELSE exchange[x].answer
           /\ \A y \in Exchanges : AsksInTurn(y)'
  <1>1. exchange \in [Exchanges -> ExchangeType] /\ asked \subseteq Query
    BY DEF RedemptionInv, AccessTypeOK
  <1>2. asked' \subseteq asked
    BY DEF Serves
  <1>3. /\ exchange' \in [Exchanges -> ExchangeType]
        /\ \A y \in Exchanges : y # x => exchange'[y] = exchange[y]
        /\ exchange'[x].at = exchange[x].at /\ exchange'[x].code = exchange[x].code
        /\ exchange'[x].answer = IF exchange[x].at = what THEN result ELSE exchange[x].answer
    BY <1>1 DEF Serves, ExchangeType
  <1>4. ASSUME NEW y \in Exchanges
        PROVE  AsksInTurn(y)'
    <2>1. AsksInTurn(y)
      BY DEF RedemptionInv
    <2>2. exchange'[y].at = exchange[y].at /\ exchange'[y].code = exchange[y].code
      BY <1>3
    <2> QED BY <1>2, <2>1, <2>2 DEF AsksInTurn, Pending
  <1> QED BY <1>1, <1>2, <1>3, <1>4

\* So does a step by which an exchange asks for more, or ends.
LEMMA AsksOne ==
    ASSUME RedemptionInv, NEW x \in Exchanges, NEW k \in Codes,
           NEW what \in {"redeem", "commit", "release"}, Asks(x, k, what),
           what = "redeem" => exchange[x].at = "new",
           what = "commit" => exchange[x].at = "redeem"
    PROVE  /\ exchange' \in [Exchanges -> ExchangeType] /\ asked' \subseteq Query
           /\ \A y \in Exchanges : y # x => exchange'[y] = exchange[y]
           /\ exchange'[x] = [at |-> what, code |-> k, answer |-> "none"]
           /\ \A y \in Exchanges : AsksInTurn(y)'
  <1>1. exchange \in [Exchanges -> ExchangeType] /\ asked \subseteq Query
    BY DEF RedemptionInv, AccessTypeOK
  <1>2. /\ exchange' \in [Exchanges -> ExchangeType]
        /\ \A y \in Exchanges : y # x => exchange'[y] = exchange[y]
        /\ exchange'[x] = [at |-> what, code |-> k, answer |-> "none"]
    BY <1>1 DEF Asks, ExchangeType
  <1>3. asked' = asked \cup {[what |-> what, by |-> x]}
    BY DEF Asks
  <1>4. asked' \subseteq Query
    BY <1>1, <1>3 DEF Query
  <1>5. ASSUME NEW y \in Exchanges
        PROVE  AsksInTurn(y)'
    <2>1. AsksInTurn(y)
      BY DEF RedemptionInv
    <2>2. CASE y # x
      <3>1. \A w \in {"redeem", "commit", "release"} : Pending(y, w)' <=> Pending(y, w)
        BY <1>3, <2>2 DEF Pending
      <3> QED BY <1>2, <2>1, <2>2, <3>1 DEF AsksInTurn
    <2>3. CASE y = x
      <3>1. /\ exchange'[x].at = what /\ exchange'[x].code = k
        BY <1>2
      <3>2. \A w \in {"redeem", "commit", "release"} :
                Pending(x, w)' => Pending(x, w) \/ w = what
        BY <1>3 DEF Pending
      <3> QED BY <2>1, <2>3, <3>1, <3>2 DEF AsksInTurn
    <2> QED BY <2>2, <2>3
  <1> QED BY <1>2, <1>4, <1>5

\* See AsksOne.
LEMMA EndsOne ==
    ASSUME RedemptionInv, NEW x \in Exchanges, Ends(x), UNCHANGED asked,
           exchange[x].at # "new"
    PROVE  /\ exchange' \in [Exchanges -> ExchangeType]
           /\ \A y \in Exchanges : y # x => exchange'[y] = exchange[y]
           /\ exchange'[x].at = "done" /\ exchange'[x].code = exchange[x].code
           /\ \A y \in Exchanges : AsksInTurn(y)'
  <1>1. exchange \in [Exchanges -> ExchangeType]
    BY DEF RedemptionInv, AccessTypeOK
  <1>2. /\ exchange' \in [Exchanges -> ExchangeType]
        /\ \A y \in Exchanges : y # x => exchange'[y] = exchange[y]
        /\ exchange'[x].at = "done" /\ exchange'[x].code = exchange[x].code
    BY <1>1 DEF Ends, ExchangeType
  <1>3. ASSUME NEW y \in Exchanges
        PROVE  AsksInTurn(y)'
    <2>1. AsksInTurn(y)
      BY DEF RedemptionInv
    <2> QED BY <1>2, <2>1 DEF AsksInTurn, Pending
  <1> QED BY <1>2, <1>3

\* The steps of an exchange keep it.
LEMMA ExchangeRedeems ==
    ASSUME RedemptionInv, NEW x \in Exchanges,
           \/ \E k \in Codes : SubmitCode(x, k)
           \/ RedeemFails(x) \/ CheckFails(x) \/ Persist(x)
           \/ CommitFails(x) \/ CommitSucceeds(x) \/ ReleaseEnds(x)
    PROVE  RedemptionInv'
  <1> USE AccessAssumption
  <1>0. /\ AccessTypeOK
        /\ \A y \in Exchanges : Consumes(y)
        /\ \A c \in Codes : GivenOnce(c)
    BY DEF RedemptionInv
  <1> DEFINE k == exchange[x].code
  <1>s. file' \subseteq Codes /\ cached' \subseteq Codes /\ UNCHANGED <<code, revoked, over>>
    <2>1. UNCHANGED <<code, revoked, over>>
      BY DEF SubmitCode, RedeemFails, CheckFails, Persist, CommitFails, CommitSucceeds,
             ReleaseEnds, atBackend
    <2>2. file \subseteq Codes /\ cached \subseteq Codes
      BY <1>0 DEF AccessTypeOK
    <2>3. \/ file' = file
          \/ k \in Codes /\ file' = file \cup ({k} \cap Fmu)
          \/ file' = file \ {k}
      BY <1>0 DEF Consumes, SubmitCode, RedeemFails, CheckFails, Persist, CommitFails,
                  CommitSucceeds, ReleaseEnds
    <2>4. \/ cached' = cached
          \/ k \in Codes /\ cached' = cached \cup {k}
          \/ cached' = cached \ {k}
      BY <1>0 DEF Consumes, SubmitCode, RedeemFails, CheckFails, Persist, CommitFails,
                  CommitSucceeds, ReleaseEnds
    <2> QED BY <2>1, <2>2, <2>3, <2>4
  <1>t. ASSUME exchange' \in [Exchanges -> ExchangeType], asked' \subseteq Query, UNCHANGED given,
               \A y \in Exchanges : y # x => exchange'[y] = exchange[y],
               exchange'[x].at \in {"redeem", "commit", "release"} => exchange'[x].code \in Codes,
               exchange'[x].answer # "ok" \/ exchange'[x].at = "done",
               \A y \in Exchanges : AsksInTurn(y)'
        PROVE  RedemptionInv'
    <2>1. AccessTypeOK' /\ \A c \in Codes : GivenOnce(c)'
      BY <1>0, <1>s, <1>t DEF AccessTypeOK, GivenOnce
    <2>2. \A y \in Exchanges : Consumes(y)'
      BY <1>0, <1>s, <1>t DEF Consumes
    <2> QED BY <1>t, <2>1, <2>2 DEF RedemptionInv
  <1>a. ASSUME NEW c \in Codes, NEW what \in {"redeem", "commit", "release"}, Asks(x, c, what),
               what = "redeem" => exchange[x].at = "new",
               what = "commit" => exchange[x].at = "redeem", UNCHANGED given
        PROVE  RedemptionInv'
    <2>1. /\ exchange' \in [Exchanges -> ExchangeType] /\ asked' \subseteq Query
          /\ \A y \in Exchanges : y # x => exchange'[y] = exchange[y]
          /\ exchange'[x] = [at |-> what, code |-> c, answer |-> "none"]
          /\ \A y \in Exchanges : AsksInTurn(y)'
      BY <1>a, AsksOne
    <2> QED BY <1>a, <1>t, <2>1
  <1>1. ASSUME NEW c \in Codes, SubmitCode(x, c)
        PROVE  RedemptionInv'
    <2>1. Asks(x, c, "redeem") /\ exchange[x].at = "new" /\ UNCHANGED given
      BY <1>1 DEF SubmitCode
    <2> QED BY <1>a, <2>1
  <1>2. ASSUME RedeemFails(x) \/ ReleaseEnds(x)
        PROVE  RedemptionInv'
    <2>1. Ends(x) /\ UNCHANGED <<asked, given>> /\ exchange[x].at # "new"
      BY <1>2 DEF RedeemFails, ReleaseEnds
    <2>2. /\ exchange' \in [Exchanges -> ExchangeType]
          /\ \A y \in Exchanges : y # x => exchange'[y] = exchange[y]
          /\ exchange'[x].at = "done"
          /\ \A y \in Exchanges : AsksInTurn(y)'
      BY <2>1, EndsOne
    <2>3. asked' \subseteq Query
      BY <1>0, <2>1 DEF AccessTypeOK
    <2> QED BY <1>t, <2>1, <2>2, <2>3
  <1>3. ASSUME CheckFails(x) \/ CommitFails(x)
        PROVE  RedemptionInv'
    <2>1. Asks(x, k, "release") /\ k \in Codes /\ UNCHANGED given
      BY <1>0, <1>3 DEF CheckFails, CommitFails, Consumes
    <2> QED BY <1>a, <2>1
  <1>4. ASSUME Persist(x)
        PROVE  RedemptionInv'
    <2>1. Asks(x, k, "commit") /\ exchange[x].at = "redeem" /\ k \in Codes /\ UNCHANGED given
      BY <1>0, <1>4 DEF Persist, Consumes
    <2> QED BY <1>a, <2>1
  <1>5. ASSUME CommitSucceeds(x)
        PROVE  RedemptionInv'
    <2>1. /\ Ends(x) /\ exchange[x].at = "commit" /\ exchange[x].answer = "ok"
          /\ given' = [given EXCEPT ![k] = @ + 1] /\ UNCHANGED asked
      BY <1>5 DEF CommitSucceeds
    <2>2. k \in Codes /\ given[k] = 0 /\ code[k].consumed /\ code[k].holder = x
      BY <1>0, <2>1 DEF Consumes
    <2>3. /\ exchange' \in [Exchanges -> ExchangeType]
          /\ \A y \in Exchanges : y # x => exchange'[y] = exchange[y]
          /\ exchange'[x].at = "done"
          /\ \A y \in Exchanges : AsksInTurn(y)'
      BY <2>1, EndsOne
    <2>4. /\ given' \in [Codes -> Nat] /\ given'[k] = 1
          /\ \A c \in Codes : c # k => given'[c] = given[c]
      BY <1>0, <2>1, <2>2 DEF AccessTypeOK
    <2>5. AccessTypeOK'
      BY <1>0, <1>s, <2>1, <2>3, <2>4 DEF AccessTypeOK
    <2>6. \A c \in Codes : GivenOnce(c)'
      BY <1>0, <1>s, <2>2, <2>4 DEF GivenOnce
    <2>7. ASSUME NEW y \in Exchanges PROVE Consumes(y)'
      <3>1. Consumes(y)
        BY <1>0
      <3>2. CASE y = x
        BY <2>3, <3>2 DEF Consumes
      <3>3. CASE y # x
        <4>1. exchange'[y] = exchange[y] /\ code' = code
          BY <1>s, <2>3, <3>3
        <4>2. exchange[y].at = "commit" /\ exchange[y].answer = "ok" => exchange[y].code # k
          BY <2>2, <3>1, <3>3 DEF Consumes
        <4>3. exchange[y].at = "commit" => exchange[y].code \in Codes
          BY <3>1 DEF Consumes
        <4> QED BY <2>4, <3>1, <4>1, <4>2, <4>3 DEF Consumes
      <3> QED BY <3>2, <3>3
    <2> QED BY <2>3, <2>5, <2>6, <2>7 DEF RedemptionInv
  <1> QED BY <1>1, <1>2, <1>3, <1>4, <1>5

\* So do those of blockchain-services, the end of a lease whenever it comes, and
\* the handlers of the sessions.
LEMMA BackendKeepsRedemptions ==
    ASSUME RedemptionInv, NEW x \in Exchanges,
           BackendRedeems(x) \/ BackendCommits(x) \/ BackendReleases(x)
    PROVE  RedemptionInv'
  <1> USE AccessAssumption
  <1>0. /\ AccessTypeOK
        /\ \A y \in Exchanges : Consumes(y) /\ AsksInTurn(y)
        /\ \A c \in Codes : GivenOnce(c)
    BY DEF RedemptionInv
  <1> DEFINE k == exchange[x].code
  <1>1. PICK what \in {"redeem", "commit", "release"}, result \in {"ok", "refused"} :
            /\ Pending(x, what) /\ Serves(x, what, result)
            /\ what = "commit" /\ result = "ok" =>
                HoldsLease(x) /\ code' = [code EXCEPT ![k].consumed = TRUE]
            /\ \/ code' = code
               \/ Free(k) /\ code' = [code EXCEPT ![k].holder = x]
               \/ HoldsLease(x) /\ code' = [code EXCEPT ![k].consumed = TRUE]
               \/ HoldsLease(x) /\ code' = [code EXCEPT ![k].holder = NoCode]
    <2>1. CASE BackendRedeems(x)
      BY <2>1 DEF BackendRedeems
    <2>2. CASE BackendCommits(x)
      BY <2>2 DEF BackendCommits
    <2>3. CASE BackendReleases(x)
      BY <2>3 DEF BackendReleases
    <2> QED BY <2>1, <2>2, <2>3
  <1>2. k \in Codes
    BY <1>0, <1>1 DEF AsksInTurn
  <1>3. /\ exchange' \in [Exchanges -> ExchangeType] /\ asked' \subseteq Query
        /\ \A y \in Exchanges : y # x => exchange'[y] = exchange[y]
        /\ exchange'[x].at = exchange[x].at /\ exchange'[x].code = exchange[x].code
        /\ exchange'[x].answer = IF exchange[x].at = what THEN result ELSE exchange[x].answer
        /\ \A y \in Exchanges : AsksInTurn(y)'
    BY <1>1, ServesOne
  <1>4. UNCHANGED <<file, cached, given, revoked, over>>
    BY <1>1 DEF Serves
  <1>5. code[k].consumed => code' = code
    BY <1>0, <1>1, <1>2 DEF Free, HoldsLease, GivenOnce
  <1>6. /\ code' \in [Codes -> CodeType]
        /\ \A c \in Codes : c # k => code'[c] = code[c]
        /\ code'[k].consumed => code'[k].holder # NoCode
    <2>1. code \in [Codes -> CodeType] /\ GivenOnce(k)
      BY <1>0, <1>2 DEF AccessTypeOK
    <2>2. CASE code' = code
      BY <2>1, <2>2 DEF GivenOnce
    <2>3. CASE Free(k) /\ code' = [code EXCEPT ![k].holder = x]
      BY <1>2, <2>1, <2>3 DEF CodeType
    <2>0. HoldsLease(x) => code[k].holder = x /\ ~code[k].consumed
      BY DEF HoldsLease
    <2>4. CASE HoldsLease(x) /\ code' = [code EXCEPT ![k].consumed = TRUE]
      BY <1>2, <2>0, <2>1, <2>4 DEF CodeType
    <2>5. CASE HoldsLease(x) /\ code' = [code EXCEPT ![k].holder = NoCode]
      BY <1>2, <2>0, <2>1, <2>5 DEF CodeType
    <2> QED BY <1>1, <2>2, <2>3, <2>4, <2>5
  <1>7. AccessTypeOK'
    BY <1>0, <1>3, <1>4, <1>6 DEF AccessTypeOK
  <1>8. ASSUME NEW c \in Codes PROVE GivenOnce(c)'
    BY <1>0, <1>4, <1>5, <1>6 DEF GivenOnce
  <1>9. ASSUME NEW y \in Exchanges PROVE Consumes(y)'
    <2>1. Consumes(y)
      BY <1>0
    <2>2. ASSUME exchange[y].at = "commit", exchange[y].answer = "ok"
          PROVE  code'[exchange[y].code] = code[exchange[y].code]
      <3>1. code[exchange[y].code].consumed /\ exchange[y].code \in Codes
        BY <2>1, <2>2 DEF Consumes
      <3> QED BY <1>5, <1>6, <3>1
    <2>3. CASE y # x \/ exchange'[y].answer = exchange[y].answer
      BY <1>3, <1>4, <2>1, <2>2, <2>3 DEF Consumes
    <2>4. CASE y = x /\ exchange'[y].answer # exchange[y].answer
      <3>1. exchange[x].at = what /\ exchange'[x].answer = result
        BY <1>3, <2>4
      <3>2. CASE what = "commit" /\ result = "ok"
        <4>1. /\ code[k].holder = x /\ ~code[k].consumed
              /\ code' = [code EXCEPT ![k].consumed = TRUE]
          BY <1>1, <3>2 DEF HoldsLease
        <4>2. code'[k].holder = x /\ code'[k].consumed
          BY <1>0, <1>2, <4>1 DEF AccessTypeOK, CodeType
        <4>3. given[k] = 0
          BY <1>0, <1>2, <4>1 DEF GivenOnce, AccessTypeOK
        <4> QED BY <1>2, <1>3, <1>4, <2>4, <4>2, <4>3 DEF Consumes
      <3>3. CASE ~(what = "commit" /\ result = "ok")
        BY <1>2, <1>3, <2>4, <3>1, <3>3 DEF Consumes
      <3> QED BY <3>2, <3>3
    <2> QED BY <2>3, <2>4
  <1> QED BY <1>3, <1>7, <1>8, <1>9 DEF RedemptionInv

\* See BackendKeepsRedemptions.
LEMMA SessionsKeepRedemptions ==
    ASSUME RedemptionInv,
           \/ \E k \in Codes :
                \/ LeaseLapses(k) \/ AccessFmu(k) \/ RevokeFmu(k)
                \/ Evict(k) \/ CredentialExpires(k)
           \/ EdgeRestarts \/ UNCHANGED accessVars
    PROVE  RedemptionInv'
  <1> USE AccessAssumption
  <1>0. /\ AccessTypeOK
        /\ \A y \in Exchanges : Consumes(y) /\ AsksInTurn(y)
        /\ \A c \in Codes : GivenOnce(c)
    BY DEF RedemptionInv
  <1>1. ASSUME NEW k \in Codes, LeaseLapses(k)
        PROVE  RedemptionInv'
    <2>1. /\ ~code[k].consumed /\ code' = [code EXCEPT ![k].holder = NoCode]
          /\ UNCHANGED <<exchange, asked, file, cached, given, revoked, over>>
      BY <1>1 DEF LeaseLapses
    <2>2. /\ code' \in [Codes -> CodeType] /\ ~code'[k].consumed
          /\ \A c \in Codes : c # k => code'[c] = code[c]
      BY <1>0, <2>1 DEF AccessTypeOK, CodeType
    <2>3. AccessTypeOK' /\ \A c \in Codes : GivenOnce(c)'
      BY <1>0, <2>1, <2>2 DEF AccessTypeOK, GivenOnce
    <2>4. ASSUME NEW y \in Exchanges
          PROVE  Consumes(y)' /\ AsksInTurn(y)'
      <3>1. Consumes(y) /\ AsksInTurn(y)
        BY <1>0
      <3>2. AsksInTurn(y)'
        BY <2>1, <3>1 DEF AsksInTurn, Pending
      <3> QED BY <2>1, <2>2, <3>1, <3>2 DEF Consumes
    <2> QED BY <2>3, <2>4 DEF RedemptionInv
  <1>2. ASSUME UNCHANGED <<exchange, asked, code, given>>, file' \subseteq Codes,
               cached' \subseteq Codes, revoked' \subseteq Codes, over' \subseteq Codes
        PROVE  RedemptionInv'
    <2>1. AccessTypeOK' /\ \A c \in Codes : GivenOnce(c)'
      BY <1>0, <1>2 DEF AccessTypeOK, GivenOnce
    <2>2. \A y \in Exchanges : Consumes(y)' /\ AsksInTurn(y)'
      BY <1>0, <1>2 DEF Consumes, AsksInTurn, Pending
    <2> QED BY <2>1, <2>2 DEF RedemptionInv
  <1>3. ASSUME NEW k \in Codes,
               AccessFmu(k) \/ RevokeFmu(k) \/ Evict(k) \/ CredentialExpires(k)
        PROVE  RedemptionInv'
    <2>1. UNCHANGED <<exchange, asked, code, given>>
      BY <1>3 DEF AccessFmu, RevokeFmu, Evict, CredentialExpires, atBackend
    <2>2. /\ file' \subseteq file /\ cached' \subseteq cached \cup {k}
          /\ revoked' \subseteq revoked \cup {k} /\ over' \subseteq over \cup {k}
      BY <1>3 DEF AccessFmu, RevokeFmu, Evict, CredentialExpires, atBackend
    <2>3. /\ file' \subseteq Codes /\ cached' \subseteq Codes
          /\ revoked' \subseteq Codes /\ over' \subseteq Codes
      BY <1>0, <2>2 DEF AccessTypeOK
    <2> QED BY <1>2, <2>1, <2>3
  <1>4. CASE EdgeRestarts
    <2>1. cached' = {} /\ UNCHANGED <<asked, file, given, code, revoked, over>>
      BY <1>4 DEF EdgeRestarts, atBackend
    <2>2. /\ exchange' \in [Exchanges -> ExchangeType]
          /\ \A y \in Exchanges :
               /\ exchange'[y].at = IF exchange[y].at = "new" THEN "new" ELSE "done"
               /\ exchange'[y].code = exchange[y].code
      <3>1. exchange \in [Exchanges -> ExchangeType]
        BY <1>0 DEF AccessTypeOK
      <3> QED BY <1>4, <3>1 DEF EdgeRestarts, ExchangeType
    <2>3. AccessTypeOK' /\ \A c \in Codes : GivenOnce(c)'
      BY <1>0, <2>1, <2>2 DEF AccessTypeOK, GivenOnce
    <2>4. \A y \in Exchanges : Consumes(y)' /\ AsksInTurn(y)'
      BY <1>0, <2>1, <2>2 DEF Consumes, AsksInTurn, Pending
    <2> QED BY <2>3, <2>4 DEF RedemptionInv
  <1>5. CASE UNCHANGED accessVars
    <2>1. /\ UNCHANGED <<exchange, asked, code, given>> /\ file' \subseteq Codes
          /\ cached' \subseteq Codes /\ revoked' \subseteq Codes /\ over' \subseteq Codes
      BY <1>0, <1>5 DEF accessVars, AccessTypeOK
    <2> QED BY <1>2, <2>1
  <1> QED BY <1>1, <1>3, <1>4, <1>5

\* One client at most gets a session for a code, for every number of codes and of
\* exchanges, and though leases run out under slow ones.
THEOREM RedeemedCorrect == AccessSpec => []RedeemedOnce
  <1>1. AccessInit => RedemptionInv
    <2> SUFFICES ASSUME AccessInit PROVE RedemptionInv
      OBVIOUS
    <2>1. AccessTypeOK
      BY DEF AccessInit, AccessTypeOK, ExchangeType, CodeType
    <2>2. \A x \in Exchanges : Consumes(x) /\ AsksInTurn(x)
      BY DEF AccessInit, Consumes, AsksInTurn, Pending
    <2>3. ASSUME NEW k \in Codes
          PROVE  GivenOnce(k)
      <3>1. given[k] = 0 /\ ~code[k].consumed
        BY DEF AccessInit
      <3> QED BY <3>1 DEF GivenOnce
    <2> QED BY <2>1, <2>2, <2>3 DEF RedemptionInv
  <1>2. RedemptionInv /\ [AccessNext]_accessVars => RedemptionInv'
    BY ExchangeRedeems, BackendKeepsRedemptions, SessionsKeepRedemptions DEF AccessNext
  <1>3. RedemptionInv => RedeemedOnce
    BY DEF RedemptionInv, GivenOnce, RedeemedOnce
  <1> QED BY <1>1, <1>2, <1>3, PTL DEF AccessSpec

\* An exchange that may still act on the lease of its handle holds it, and a
\* code that is being committed was given to nobody.
ExchangeHolds(x) ==
    LET e == exchange[x]
        k == exchange[x].code
    IN  /\ e.at \in {"redeem", "commit", "release"} => k \in Codes
        /\ e.at \in {"redeem", "commit"} /\ e.answer = "ok" => code[k].holder = x
        /\ e.at = "redeem" /\ e.answer = "ok" => ~code[k].consumed
        /\ e.at = "commit" =>
            /\ code[k].holder = x /\ given[k] = 0
            /\ k \in Fmu /\ k \notin over => k \in file
        /\ e.at = "commit" /\ e.answer = "ok" => code[k].consumed

CodeHolds(k) ==
    /\ code[k].consumed => code[k].holder # NoCode
    /\ given[k] <= 1
    /\ given[k] = 1 => code[k].consumed
    /\ k \in Fmu /\ given[k] = 1 /\ k \notin revoked \cup over => k \in file
    /\ k \in revoked => given[k] = 1 /\ k \notin file \cup cached

AccessInv ==
    /\ AccessTypeOK
    /\ \A x \in Exchanges : ExchangeHolds(x) /\ AsksInTurn(x)
    /\ \A k \in Codes : CodeHolds(k)

LEMMA AccessRedeems ==
    ASSUME AccessInv
    PROVE  RedemptionInv
  <1>1. AccessTypeOK /\ \A x \in Exchanges : AsksInTurn(x)
    BY DEF AccessInv
  <1>2. \A x \in Exchanges : Consumes(x)
    BY DEF AccessInv, ExchangeHolds, Consumes
  <1>3. \A k \in Codes : GivenOnce(k)
    BY DEF AccessInv, CodeHolds, GivenOnce
  <1> QED BY <1>1, <1>2, <1>3 DEF RedemptionInv

\* What an exchange holds as long as it is in the middle of something, and the
\* code it holds is held by no other.
LEMMA MakingHolds ==
    ASSUME AccessInv, NEW x \in Exchanges,
           \/ exchange[x].at = "commit"
           \/ exchange[x].at = "redeem" /\ exchange[x].answer = "ok"
    PROVE  /\ exchange[x].code \in Codes
           /\ code[exchange[x].code].holder = x
           /\ given[exchange[x].code] = 0
           /\ exchange[x].code \notin revoked
           /\ \A y \in Exchanges : y # x /\ exchange[y].code = exchange[x].code =>
                /\ exchange[y].at # "commit"
                /\ exchange[y].at = "redeem" => exchange[y].answer # "ok"
  <1> DEFINE k == exchange[x].code
  <1>1. ExchangeHolds(x) /\ \A y \in Exchanges : ExchangeHolds(y)
    BY DEF AccessInv
  <1>2. k \in Codes /\ code[k].holder = x
    BY <1>1 DEF ExchangeHolds
  <1>3. CodeHolds(k) /\ given[k] \in Nat
    BY <1>2 DEF AccessInv, AccessTypeOK
  <1>4. given[k] = 0
    BY <1>1, <1>2, <1>3 DEF ExchangeHolds, CodeHolds
  <1>5. k \notin revoked
    BY <1>3, <1>4 DEF CodeHolds
  <1>6. ASSUME NEW y \in Exchanges, y # x, exchange[y].code = k
        PROVE  exchange[y].at # "commit" /\ (exchange[y].at = "redeem" => exchange[y].answer # "ok")
    BY <1>1, <1>2, <1>6 DEF ExchangeHolds
  <1> QED BY <1>2, <1>4, <1>5, <1>6

\* The steps of an exchange.
LEMMA ExchangeInv ==
    ASSUME AccessInv, NEW x \in Exchanges,
           \/ \E k \in Codes : SubmitCode(x, k)
           \/ RedeemFails(x) \/ CheckFails(x) \/ Persist(x)
           \/ CommitFails(x) \/ CommitSucceeds(x) \/ ReleaseEnds(x)
    PROVE  AccessInv'
  <1> USE AccessAssumption
  <1>r. RedemptionInv
    BY AccessRedeems
  <1>0. /\ AccessTypeOK
        /\ \A y \in Exchanges : ExchangeHolds(y)
        /\ \A c \in Codes : CodeHolds(c)
    BY DEF AccessInv
  <1> DEFINE k == exchange[x].code
  <1>1. ASSUME NEW c \in Codes, SubmitCode(x, c)
        PROVE  AccessInv'
    <2>1. Asks(x, c, "redeem") /\ exchange[x].at = "new"
      BY <1>1 DEF SubmitCode
    <2>2. UNCHANGED <<file, cached, given, code, revoked, over>>
      BY <1>1 DEF SubmitCode, atBackend
    <2>3. /\ exchange' \in [Exchanges -> ExchangeType] /\ asked' \subseteq Query
          /\ \A y \in Exchanges : y # x => exchange'[y] = exchange[y]
          /\ exchange'[x] = [at |-> "redeem", code |-> c, answer |-> "none"]
          /\ \A y \in Exchanges : AsksInTurn(y)'
      BY <1>r, <2>1, AsksOne
    <2>4. AccessTypeOK' /\ \A d \in Codes : CodeHolds(d)'
      BY <1>0, <2>2, <2>3 DEF AccessTypeOK, CodeHolds
    <2>5. \A y \in Exchanges : ExchangeHolds(y)'
      BY <1>0, <2>2, <2>3 DEF ExchangeHolds
    <2> QED BY <2>3, <2>4, <2>5 DEF AccessInv
  <1>2. ASSUME RedeemFails(x) \/ ReleaseEnds(x)
        PROVE  AccessInv'
    <2>1. /\ Ends(x) /\ UNCHANGED asked /\ exchange[x].at # "new"
          /\ UNCHANGED <<file, cached, given, code, revoked, over>>
      BY <1>2 DEF RedeemFails, ReleaseEnds, atBackend
    <2>2. /\ exchange' \in [Exchanges -> ExchangeType]
          /\ \A y \in Exchanges : y # x => exchange'[y] = exchange[y]
          /\ exchange'[x].at = "done"
          /\ \A y \in Exchanges : AsksInTurn(y)'
      BY <1>r, <2>1, EndsOne
    <2>3. AccessTypeOK' /\ \A d \in Codes : CodeHolds(d)'
      BY <1>0, <2>1, <2>2 DEF AccessTypeOK, CodeHolds
    <2>4. \A y \in Exchanges : ExchangeHolds(y)'
      BY <1>0, <2>1, <2>2 DEF ExchangeHolds
    <2> QED BY <2>2, <2>3, <2>4 DEF AccessInv
  <1>3. ASSUME CheckFails(x)
        PROVE  AccessInv'
    <2>1. /\ Asks(x, k, "release") /\ exchange[x].at = "redeem" /\ exchange[x].answer = "ok"
          /\ UNCHANGED <<file, cached, given, code, revoked, over>>
      BY <1>3 DEF CheckFails, atBackend
    <2>2. k \in Codes
      BY <2>1, MakingHolds
    <2>3. /\ exchange' \in [Exchanges -> ExchangeType] /\ asked' \subseteq Query
          /\ \A y \in Exchanges : y # x => exchange'[y] = exchange[y]
          /\ exchange'[x] = [at |-> "release", code |-> k, answer |-> "none"]
          /\ \A y \in Exchanges : AsksInTurn(y)'
      BY <1>r, <2>1, <2>2, AsksOne
    <2>4. AccessTypeOK' /\ \A d \in Codes : CodeHolds(d)'
      BY <1>0, <2>1, <2>3 DEF AccessTypeOK, CodeHolds
    <2>5. \A y \in Exchanges : ExchangeHolds(y)'
      BY <1>0, <2>1, <2>2, <2>3 DEF ExchangeHolds
    <2> QED BY <2>3, <2>4, <2>5 DEF AccessInv
  <1>4. ASSUME Persist(x)
        PROVE  AccessInv'
    <2>1. /\ Asks(x, k, "commit") /\ exchange[x].at = "redeem" /\ exchange[x].answer = "ok"
          /\ k \notin over /\ file' = file \cup ({k} \cap Fmu)
          /\ UNCHANGED <<cached, given, code, revoked, over>>
      BY <1>4 DEF Persist, atBackend
    <2>2. k \in Codes /\ code[k].holder = x /\ given[k] = 0 /\ k \notin revoked
      BY <2>1, MakingHolds
    <2>3. /\ exchange' \in [Exchanges -> ExchangeType] /\ asked' \subseteq Query
          /\ \A y \in Exchanges : y # x => exchange'[y] = exchange[y]
          /\ exchange'[x] = [at |-> "commit", code |-> k, answer |-> "none"]
          /\ \A y \in Exchanges : AsksInTurn(y)'
      BY <1>r, <2>1, <2>2, AsksOne
    <2>4. AccessTypeOK'
      BY <1>0, <2>1, <2>2, <2>3 DEF AccessTypeOK
    <2>5. \A d \in Codes : CodeHolds(d)'
      BY <1>0, <2>1, <2>2 DEF CodeHolds
    <2>6. \A y \in Exchanges : ExchangeHolds(y)'
      BY <1>0, <2>1, <2>2, <2>3 DEF ExchangeHolds
    <2> QED BY <2>3, <2>4, <2>5, <2>6 DEF AccessInv
  <1>5. ASSUME CommitFails(x)
        PROVE  AccessInv'
    <2>1. /\ Asks(x, k, "release") /\ exchange[x].at = "commit"
          /\ file' \in {file, file \ {k}}
          /\ cached' \in {cached, cached \ {k}}
          /\ UNCHANGED <<given, code, revoked, over>>
      BY <1>5 DEF CommitFails, atBackend
    <2>2. /\ k \in Codes /\ given[k] = 0
          /\ \A y \in Exchanges : y # x /\ exchange[y].code = k => exchange[y].at # "commit"
      BY <2>1, MakingHolds
    <2>3. /\ exchange' \in [Exchanges -> ExchangeType] /\ asked' \subseteq Query
          /\ \A y \in Exchanges : y # x => exchange'[y] = exchange[y]
          /\ exchange'[x] = [at |-> "release", code |-> k, answer |-> "none"]
          /\ \A y \in Exchanges : AsksInTurn(y)'
      BY <1>r, <2>1, <2>2, AsksOne
    <2>4. AccessTypeOK'
      BY <1>0, <2>1, <2>3 DEF AccessTypeOK
    <2>5. \A d \in Codes : CodeHolds(d)'
      BY <1>0, <2>1, <2>2 DEF CodeHolds
    <2>6. \A y \in Exchanges : ExchangeHolds(y)'
      BY <1>0, <2>1, <2>2, <2>3 DEF ExchangeHolds
    <2> QED BY <2>3, <2>4, <2>5, <2>6 DEF AccessInv
  <1>6. ASSUME CommitSucceeds(x)
        PROVE  AccessInv'
    <2>1. /\ Ends(x) /\ exchange[x].at = "commit" /\ exchange[x].answer = "ok"
          /\ cached' \in {cached, cached \cup {k}}
          /\ given' = [given EXCEPT ![k] = @ + 1]
          /\ UNCHANGED <<asked, file, code, revoked, over>>
      BY <1>6 DEF CommitSucceeds, atBackend
    <2>2. /\ k \in Codes /\ given[k] = 0 /\ k \notin revoked
          /\ \A y \in Exchanges : y # x /\ exchange[y].code = k => exchange[y].at # "commit"
      BY <2>1, MakingHolds
    <2>3. code[k].consumed /\ (k \in Fmu /\ k \notin over => k \in file)
      BY <1>0, <2>1 DEF ExchangeHolds
    <2>4. /\ exchange' \in [Exchanges -> ExchangeType]
          /\ \A y \in Exchanges : y # x => exchange'[y] = exchange[y]
          /\ exchange'[x].at = "done"
          /\ \A y \in Exchanges : AsksInTurn(y)'
      BY <1>r, <2>1, EndsOne
    <2>5. given' \in [Codes -> Nat] /\ given'[k] = 1
          /\ \A d \in Codes : d # k => given'[d] = given[d]
      BY <1>0, <2>1, <2>2 DEF AccessTypeOK
    <2>6. AccessTypeOK'
      BY <1>0, <2>1, <2>2, <2>4, <2>5 DEF AccessTypeOK
    <2>7. \A d \in Codes : CodeHolds(d)'
      BY <1>0, <2>1, <2>2, <2>3, <2>5 DEF CodeHolds
    <2>8. \A y \in Exchanges : ExchangeHolds(y)'
      BY <1>0, <2>1, <2>2, <2>4, <2>5 DEF ExchangeHolds
    <2> QED BY <2>4, <2>6, <2>7, <2>8 DEF AccessInv
  <1> QED BY <1>1, <1>2, <1>3, <1>4, <1>5, <1>6

\* What blockchain-services answers.
LEMMA BackendInv ==
    ASSUME AccessInv, NEW x \in Exchanges,
           BackendRedeems(x) \/ BackendCommits(x) \/ BackendReleases(x)
    PROVE  AccessInv'
  <1> USE AccessAssumption
  <1>r. RedemptionInv
    BY AccessRedeems
  <1>0. /\ AccessTypeOK
        /\ \A y \in Exchanges : ExchangeHolds(y) /\ AsksInTurn(y)
        /\ \A c \in Codes : CodeHolds(c)
    BY DEF AccessInv
  <1> DEFINE k == exchange[x].code
  <1>t. ASSUME NEW what \in {"redeem", "commit", "release"}, NEW result \in {"ok", "refused"},
               Serves(x, what, result), code' \in [Codes -> CodeType],
               \A c \in Codes : CodeHolds(c)', \A y \in Exchanges : ExchangeHolds(y)'
        PROVE  AccessInv'
    <2>1. /\ exchange' \in [Exchanges -> ExchangeType] /\ asked' \subseteq Query
          /\ \A y \in Exchanges : AsksInTurn(y)'
      BY <1>r, <1>t, ServesOne
    <2>2. UNCHANGED <<file, cached, given, revoked, over>>
      BY <1>t DEF Serves
    <2> QED BY <1>0, <1>t, <2>1, <2>2 DEF AccessInv, AccessTypeOK
  <1>1. ASSUME BackendRedeems(x)
        PROVE  AccessInv'
    <2>1. Pending(x, "redeem") /\ k \in Codes
      BY <1>0, <1>1 DEF BackendRedeems, AsksInTurn
    <2>2. CASE Free(k)
      <3>1. code' = [code EXCEPT ![k].holder = x] /\ Serves(x, "redeem", "ok")
        BY <1>1, <2>2 DEF BackendRedeems
      <3>2. UNCHANGED <<file, cached, given, revoked, over>>
        BY <3>1 DEF Serves
      <3>3. /\ code' \in [Codes -> CodeType]
            /\ code'[k].holder = x /\ code'[k].consumed = code[k].consumed
            /\ \A c \in Codes : c # k => code'[c] = code[c]
        BY <1>0, <2>1, <3>1 DEF AccessTypeOK, CodeType
      <3>4. code[k].holder = NoCode /\ ~code[k].consumed
        BY <1>0, <2>1, <2>2 DEF Free, CodeHolds
      <3>5. \A c \in Codes : CodeHolds(c)'
        BY <1>0, <3>2, <3>3, <3>4 DEF CodeHolds
      <3>6. /\ \A y \in Exchanges : y # x => exchange'[y] = exchange[y]
            /\ exchange'[x].at = exchange[x].at /\ exchange'[x].code = exchange[x].code
            /\ exchange'[x].answer = IF exchange[x].at = "redeem" THEN "ok" ELSE exchange[x].answer
        BY <1>r, <3>1, ServesOne
      <3>7. \A y \in Exchanges : ExchangeHolds(y)'
        <4>1. ASSUME NEW y \in Exchanges, y # x
              PROVE  ExchangeHolds(y)'
          <5>1. ExchangeHolds(y)
            BY <1>0
          <5> QED BY <3>2, <3>3, <3>4, <3>6, <4>1, <5>1 DEF ExchangeHolds
        <4>2. ExchangeHolds(x)'
          <5>1. ExchangeHolds(x) /\ x # NoCode
            BY <1>0
          <5> QED BY <2>1, <3>2, <3>3, <3>4, <3>6, <5>1 DEF ExchangeHolds
        <4> QED BY <4>1, <4>2
      <3> QED BY <3>1, <3>3, <3>5, <3>7, <1>t
    <2>3. CASE ~Free(k)
      <3>1. UNCHANGED code /\ Serves(x, "redeem", "refused")
        BY <1>1, <2>3 DEF BackendRedeems
      <3>2. UNCHANGED <<file, cached, given, revoked, over>>
        BY <3>1 DEF Serves
      <3>3. code' \in [Codes -> CodeType] /\ \A c \in Codes : CodeHolds(c)'
        BY <1>0, <3>1, <3>2 DEF CodeHolds, AccessTypeOK
      <3>4. /\ \A y \in Exchanges : y # x => exchange'[y] = exchange[y]
            /\ exchange'[x].at = exchange[x].at /\ exchange'[x].code = exchange[x].code
            /\ exchange'[x].answer = IF exchange[x].at = "redeem" THEN "refused" ELSE exchange[x].answer
        BY <1>r, <3>1, ServesOne
      <3>5. \A y \in Exchanges : ExchangeHolds(y)'
        BY <1>0, <3>1, <3>2, <3>4 DEF ExchangeHolds
      <3> QED BY <3>1, <3>3, <3>5, <1>t
    <2> QED BY <2>2, <2>3
  <1>2. ASSUME BackendCommits(x)
        PROVE  AccessInv'
    <2>1. Pending(x, "commit") /\ k \in Codes /\ exchange[x].at # "redeem"
      BY <1>0, <1>2 DEF BackendCommits, AsksInTurn
    <2>2. CASE HoldsLease(x)
      <3>1. code' = [code EXCEPT ![k].consumed = TRUE] /\ Serves(x, "commit", "ok")
        BY <1>2, <2>2 DEF BackendCommits
      <3>2. UNCHANGED <<file, cached, given, revoked, over>>
        BY <3>1 DEF Serves
      <3>3. /\ code' \in [Codes -> CodeType]
            /\ code'[k].holder = code[k].holder /\ code'[k].consumed
            /\ \A c \in Codes : c # k => code'[c] = code[c]
        BY <1>0, <2>1, <3>1 DEF AccessTypeOK, CodeType
      <3>4. code[k].holder = x /\ x # NoCode
        BY <2>2 DEF HoldsLease
      <3>5. \A c \in Codes : CodeHolds(c)'
        BY <1>0, <3>2, <3>3, <3>4 DEF CodeHolds
      <3>6. /\ \A y \in Exchanges : y # x => exchange'[y] = exchange[y]
            /\ exchange'[x].at = exchange[x].at /\ exchange'[x].code = exchange[x].code
            /\ exchange'[x].answer = IF exchange[x].at = "commit" THEN "ok" ELSE exchange[x].answer
        BY <1>r, <3>1, ServesOne
      <3>7. ASSUME NEW y \in Exchanges
            PROVE  ExchangeHolds(y)'
        <4>1. ExchangeHolds(y)
          BY <1>0
        <4>2. CASE y # x
          BY <3>2, <3>3, <3>4, <3>6, <4>1, <4>2 DEF ExchangeHolds
        <4>3. CASE y = x
          BY <2>1, <3>2, <3>3, <3>4, <3>6, <4>1, <4>3 DEF ExchangeHolds
        <4> QED BY <4>2, <4>3
      <3> QED BY <3>1, <3>3, <3>5, <3>7, <1>t
    <2>3. CASE ~HoldsLease(x)
      <3>1. UNCHANGED code /\ Serves(x, "commit", "refused")
        BY <1>2, <2>3 DEF BackendCommits
      <3>2. UNCHANGED <<file, cached, given, revoked, over>>
        BY <3>1 DEF Serves
      <3>3. code' \in [Codes -> CodeType] /\ \A c \in Codes : CodeHolds(c)'
        BY <1>0, <3>1, <3>2 DEF CodeHolds, AccessTypeOK
      <3>4. /\ \A y \in Exchanges : y # x => exchange'[y] = exchange[y]
            /\ exchange'[x].at = exchange[x].at /\ exchange'[x].code = exchange[x].code
            /\ exchange'[x].answer = IF exchange[x].at = "commit" THEN "refused" ELSE exchange[x].answer
        BY <1>r, <3>1, ServesOne
      <3>5. \A y \in Exchanges : ExchangeHolds(y)'
        BY <1>0, <3>1, <3>2, <3>4 DEF ExchangeHolds
      <3> QED BY <3>1, <3>3, <3>5, <1>t
    <2> QED BY <2>2, <2>3
  <1>3. ASSUME BackendReleases(x)
        PROVE  AccessInv'
    <2>1. /\ Pending(x, "release") /\ k \in Codes
          /\ exchange[x].at # "redeem" /\ exchange[x].at # "commit"
      BY <1>0, <1>3 DEF BackendReleases, AsksInTurn
    <2>2. /\ Serves(x, "release", "ok")
          /\ code' = IF HoldsLease(x) THEN [code EXCEPT ![k].holder = NoCode] ELSE code
      BY <1>3 DEF BackendReleases
    <2>3. UNCHANGED <<file, cached, given, revoked, over>>
      BY <2>2 DEF Serves
    <2>4. /\ code' \in [Codes -> CodeType]
          /\ \A c \in Codes : code'[c].consumed = code[c].consumed
          /\ \A c \in Codes : code[c].holder # x \/ code[c].consumed => code'[c] = code[c]
      BY <1>0, <2>1, <2>2 DEF AccessTypeOK, CodeType, HoldsLease
    <2>5. \A c \in Codes : CodeHolds(c)'
      BY <1>0, <2>3, <2>4 DEF CodeHolds
    <2>6. /\ \A y \in Exchanges : y # x => exchange'[y] = exchange[y]
          /\ exchange'[x].at = exchange[x].at /\ exchange'[x].code = exchange[x].code
      BY <1>r, <2>2, ServesOne
    <2>7. ASSUME NEW y \in Exchanges
          PROVE  ExchangeHolds(y)'
      <3>1. ExchangeHolds(y)
        BY <1>0
      <3>2. CASE y # x
        BY <2>3, <2>4, <2>6, <3>1, <3>2 DEF ExchangeHolds
      <3>3. CASE y = x
        BY <2>1, <2>6, <3>3 DEF ExchangeHolds
      <3> QED BY <3>2, <3>3
    <2> QED BY <2>2, <2>4, <2>5, <2>7, <1>t
  <1> QED BY <1>1, <1>2, <1>3

\* The end of a lease, which its exchange does not need any more.
LEMMA LeaseInv ==
    ASSUME AccessInv, ~Slow, NEW k \in Codes, LeaseLapses(k)
    PROVE  AccessInv'
  <1>0. /\ AccessTypeOK
        /\ \A y \in Exchanges : ExchangeHolds(y) /\ AsksInTurn(y)
        /\ \A c \in Codes : CodeHolds(c)
    BY DEF AccessInv
  <1>1. PICK x : x = code[k].holder
    OBVIOUS
  <1>2. /\ x # NoCode /\ ~code[k].consumed
        /\ exchange[x].at \notin {"redeem", "commit"}
        /\ code' = [code EXCEPT ![k].holder = NoCode]
        /\ UNCHANGED <<exchange, asked, file, cached, given, revoked, over>>
    BY <1>1 DEF LeaseLapses
  <1>3. /\ code' \in [Codes -> CodeType]
        /\ \A c \in Codes : code'[c].consumed = code[c].consumed
        /\ \A c \in Codes : c # k => code'[c] = code[c]
    BY <1>0, <1>2, AccessAssumption DEF AccessTypeOK, CodeType
  <1>4. \A c \in Codes : CodeHolds(c)'
    BY <1>0, <1>2, <1>3 DEF CodeHolds
  <1>5. ASSUME NEW y \in Exchanges
        PROVE  ExchangeHolds(y)' /\ AsksInTurn(y)'
    <2>1. AsksInTurn(y)'
      BY <1>0, <1>2 DEF AsksInTurn, Pending
    <2>2. ExchangeHolds(y)
      BY <1>0
    <2>3. CASE exchange[y].code = k
      <3>1. exchange[y].at = "commit" => y = x
        BY <1>1, <2>2, <2>3 DEF ExchangeHolds
      <3>2. exchange[y].at = "redeem" /\ exchange[y].answer = "ok" => y = x
        BY <1>1, <2>2, <2>3 DEF ExchangeHolds
      <3> QED BY <1>2, <2>1, <2>2, <2>3, <3>1, <3>2 DEF ExchangeHolds
    <2>4. CASE exchange[y].code # k
      BY <1>2, <1>3, <2>1, <2>2, <2>4 DEF ExchangeHolds
    <2> QED BY <2>3, <2>4
  <1> QED BY <1>0, <1>2, <1>3, <1>4, <1>5 DEF AccessInv, AccessTypeOK

\* The requests and the ends of sessions, and a restart of the edge.
LEMMA SessionsInv ==
    ASSUME AccessInv,
           \/ \E k \in Codes : AccessFmu(k) \/ RevokeFmu(k) \/ Evict(k) \/ CredentialExpires(k)
           \/ EdgeRestarts
    PROVE  AccessInv'
  <1>0. /\ AccessTypeOK
        /\ \A y \in Exchanges : ExchangeHolds(y) /\ AsksInTurn(y)
        /\ \A c \in Codes : CodeHolds(c)
    BY DEF AccessInv
  <1>1. ASSUME NEW k \in Codes, AccessFmu(k)
        PROVE  AccessInv'
    <2>1. /\ given[k] > 0 /\ k \in file
          /\ \/ k \in over /\ file' = file \ {k} /\ cached' = cached
             \/ k \notin over /\ file' = file /\ cached' = cached \cup {k}
          /\ UNCHANGED <<exchange, asked, given, code, revoked, over>>
      BY <1>1 DEF AccessFmu, atBackend
    <2>2. AccessTypeOK'
      BY <1>0, <2>1 DEF AccessTypeOK
    <2>3. \A c \in Codes : CodeHolds(c)'
      BY <1>0, <2>1 DEF CodeHolds
    <2>4. \A y \in Exchanges : ExchangeHolds(y)' /\ AsksInTurn(y)'
      BY <1>0, <2>1 DEF ExchangeHolds, AsksInTurn, Pending
    <2> QED BY <2>2, <2>3, <2>4 DEF AccessInv
  <1>2. ASSUME NEW k \in Codes, RevokeFmu(k)
        PROVE  AccessInv'
    <2>1. /\ given[k] > 0
          /\ file' = file \ {k} /\ cached' = cached \ {k} /\ revoked' = revoked \cup {k}
          /\ UNCHANGED <<exchange, asked, given, code, over>>
      BY <1>2 DEF RevokeFmu
    <2>2. AccessTypeOK'
      BY <1>0, <2>1 DEF AccessTypeOK
    <2>3. given[k] = 1
      BY <1>0, <2>1 DEF CodeHolds, AccessTypeOK
    <2>4. \A c \in Codes : CodeHolds(c)'
      BY <1>0, <2>1, <2>3 DEF CodeHolds
    <2>5. ASSUME NEW y \in Exchanges
          PROVE  ExchangeHolds(y)' /\ AsksInTurn(y)'
      <3>1. exchange[y].at = "commit" => exchange[y].code # k
        BY <1>0, <2>3 DEF ExchangeHolds
      <3> QED BY <1>0, <2>1, <3>1 DEF ExchangeHolds, AsksInTurn, Pending
    <2> QED BY <2>2, <2>4, <2>5 DEF AccessInv
  <1>3. ASSUME NEW k \in Codes, Evict(k) \/ CredentialExpires(k)
        PROVE  AccessInv'
    <2>1. /\ cached' \in {cached, cached \ {k}} /\ over' \in {over, over \cup {k}}
          /\ UNCHANGED <<exchange, asked, file, given, code, revoked>>
      BY <1>3 DEF Evict, CredentialExpires, atBackend
    <2>2. AccessTypeOK'
      BY <1>0, <2>1 DEF AccessTypeOK
    <2>3. \A c \in Codes : CodeHolds(c)'
      BY <1>0, <2>1 DEF CodeHolds
    <2>4. \A y \in Exchanges : ExchangeHolds(y)' /\ AsksInTurn(y)'
      BY <1>0, <2>1 DEF ExchangeHolds, AsksInTurn, Pending
    <2> QED BY <2>2, <2>3, <2>4 DEF AccessInv
  <1>4. ASSUME EdgeRestarts
        PROVE  AccessInv'
    <2>1. /\ cached' = {}
          /\ UNCHANGED <<asked, file, given, code, revoked, over>>
      BY <1>4 DEF EdgeRestarts, atBackend
    <2>2. /\ exchange' \in [Exchanges -> ExchangeType]
          /\ \A y \in Exchanges :
               /\ exchange'[y].at = IF exchange[y].at = "new" THEN "new" ELSE "done"
               /\ exchange'[y].code = exchange[y].code
      <3>1. exchange \in [Exchanges -> ExchangeType]
        BY <1>0 DEF AccessTypeOK
      <3> QED BY <1>4, <3>1 DEF EdgeRestarts, ExchangeType
    <2>3. AccessTypeOK'
      BY <1>0, <2>1, <2>2 DEF AccessTypeOK
    <2>4. \A c \in Codes : CodeHolds(c)'
      BY <1>0, <2>1 DEF CodeHolds
    <2>5. \A y \in Exchanges : ExchangeHolds(y)' /\ AsksInTurn(y)'
      BY <1>0, <2>1, <2>2 DEF ExchangeHolds, AsksInTurn, Pending
    <2> QED BY <2>3, <2>4, <2>5 DEF AccessInv
  <1> QED BY <1>1, <1>2, <1>3, <1>4

\* As long as no exchange outlasts the lease of its handle.
THEOREM AccessInvariance ==
    ASSUME ~Slow
    PROVE  AccessSpec => []AccessInv
  <1>1. AccessInit => AccessInv
    <2> SUFFICES ASSUME AccessInit PROVE AccessInv
      OBVIOUS
    <2>1. AccessTypeOK
      BY DEF AccessInit, AccessTypeOK, ExchangeType, CodeType
    <2>2. \A x \in Exchanges : ExchangeHolds(x) /\ AsksInTurn(x)
      BY DEF AccessInit, ExchangeHolds, AsksInTurn, Pending
    <2>3. ASSUME NEW k \in Codes
          PROVE  CodeHolds(k)
      <3>1. given[k] = 0 /\ ~code[k].consumed /\ k \notin revoked
        BY DEF AccessInit
      <3> QED BY <3>1 DEF CodeHolds
    <2> QED BY <2>1, <2>2, <2>3 DEF AccessInv
  <1>2. AccessInv /\ [AccessNext]_accessVars => AccessInv'
    <2> SUFFICES ASSUME AccessInv, [AccessNext]_accessVars PROVE AccessInv'
      OBVIOUS
    <2>1. CASE UNCHANGED accessVars
      BY <2>1 DEF accessVars, AccessInv, AccessTypeOK, ExchangeHolds, AsksInTurn, CodeHolds,
                  Pending
    <2>2. CASE AccessNext
      BY <2>2, ExchangeInv, BackendInv, LeaseInv, SessionsInv DEF AccessNext
    <2> QED BY <2>1, <2>2
  <1> QED BY <1>1, <1>2, PTL DEF AccessSpec

\* A session survives restarts and failing exchanges and a revoked one never comes
\* back, likewise.
THEOREM LastsCorrect ==
    ASSUME ~Slow
    PROVE  AccessSpec => []LastsUntilRevoked
  <1>1. AccessInv => LastsUntilRevoked
    BY AccessAssumption DEF AccessInv, CodeHolds, LastsUntilRevoked
  <1> QED BY <1>1, AccessInvariance, PTL

\* The sessions that let their client in are those handed out and neither revoked
\* nor expired: nothing else removes them, whatever becomes of files and entries.
Standing == {k \in Fmu \ (over \cup revoked) : given[k] > 0}

LEMMA LiveIsStanding == AccessInv => LiveSessions = Standing
  <1> SUFFICES ASSUME AccessInv PROVE LiveSessions = Standing
    OBVIOUS
  <1>1. ASSUME NEW k \in Fmu, given[k] > 0, k \notin over
        PROVE  k \in file \cup cached <=> k \notin revoked
    <2>1. k \in Codes /\ CodeHolds(k) /\ given[k] \in Nat
      BY AccessAssumption DEF AccessInv, AccessTypeOK
    <2> QED BY <1>1, <2>1 DEF CodeHolds
  <1> QED BY <1>1 DEF LiveSessions, Standing

\* What a step may change of the promise.
GrantStep ==
    \/ UNCHANGED <<ConsumedCodes, HandedCodes, Standing, over>>
    \/ \E k \in Codes :
        \/ /\ k \notin ConsumedCodes /\ ConsumedCodes' = ConsumedCodes \cup {k}
           /\ UNCHANGED <<HandedCodes, Standing, over>>
        \/ /\ k \in ConsumedCodes \ HandedCodes /\ HandedCodes' = HandedCodes \cup {k}
           /\ Standing' = Standing \cup (({k} \cap Fmu) \ over)
           /\ UNCHANGED <<ConsumedCodes, over>>
        \/ /\ k \in Standing /\ Standing' = Standing \ {k}
           /\ UNCHANGED <<ConsumedCodes, HandedCodes, over>>
        \/ /\ k \notin over /\ over' = over \cup {k} /\ Standing' = Standing \ {k}
           /\ UNCHANGED <<ConsumedCodes, HandedCodes>>

\* A step that leaves these alone changes nothing of it.
LEMMA GrantStutters ==
    ASSUME UNCHANGED <<given, revoked, over>>,
           \A k \in Codes : code'[k].consumed = code[k].consumed
    PROVE  GrantStep
  BY DEF GrantStep, ConsumedCodes, HandedCodes, Standing

LEMMA ExchangeGrants ==
    ASSUME AccessInv, NEW x \in Exchanges,
           \/ \E k \in Codes : SubmitCode(x, k)
           \/ RedeemFails(x) \/ CheckFails(x) \/ Persist(x)
           \/ CommitFails(x) \/ CommitSucceeds(x) \/ ReleaseEnds(x)
    PROVE  GrantStep
  <1>1. UNCHANGED <<code, revoked, over>>
    BY DEF SubmitCode, RedeemFails, CheckFails, Persist, CommitFails, CommitSucceeds,
           ReleaseEnds, atBackend
  <1>2. CASE UNCHANGED given
    BY <1>1, <1>2, GrantStutters
  <1>3. CASE CommitSucceeds(x)
    <2> DEFINE k == exchange[x].code
    <2>1. exchange[x].at = "commit" /\ exchange[x].answer = "ok"
          /\ given' = [given EXCEPT ![k] = @ + 1]
      BY <1>3 DEF CommitSucceeds
    <2>2. k \in Codes /\ given[k] = 0 /\ k \notin revoked
      BY <2>1, MakingHolds
    <2>3. code[k].consumed
      BY <2>1 DEF AccessInv, ExchangeHolds
    <2>4. given'[k] = 1 /\ \A c \in Codes : c # k => given'[c] = given[c]
      BY <2>1, <2>2 DEF AccessInv, AccessTypeOK
    <2>5. k \in ConsumedCodes \ HandedCodes
      BY <2>2, <2>3 DEF ConsumedCodes, HandedCodes
    <2>6. HandedCodes' = HandedCodes \cup {k} /\ ConsumedCodes' = ConsumedCodes
      BY <1>1, <2>2, <2>4 DEF HandedCodes, ConsumedCodes
    <2>7. Standing' = Standing \cup (({k} \cap Fmu) \ over)
      BY <1>1, <2>2, <2>4, AccessAssumption DEF Standing
    <2> QED BY <1>1, <2>2, <2>5, <2>6, <2>7 DEF GrantStep
  <1> QED BY <1>2, <1>3 DEF SubmitCode, RedeemFails, CheckFails, Persist, CommitFails, ReleaseEnds

LEMMA BackendGrants ==
    ASSUME AccessInv, NEW x \in Exchanges,
           BackendRedeems(x) \/ BackendCommits(x) \/ BackendReleases(x)
    PROVE  GrantStep
  <1> DEFINE k == exchange[x].code
  <1>1. UNCHANGED <<given, revoked, over>>
    BY DEF BackendRedeems, BackendCommits, BackendReleases, Serves
  <1>2. code \in [Codes -> CodeType]
    BY DEF AccessInv, AccessTypeOK
  <1>3. k \in Codes
    BY DEF AccessInv, AsksInTurn, BackendRedeems, BackendCommits, BackendReleases
  <1>4. CASE HoldsLease(x) /\ code' = [code EXCEPT ![k].consumed = TRUE]
    <2>1. /\ ~code[k].consumed /\ code'[k].consumed
          /\ \A c \in Codes : c # k => code'[c] = code[c]
      BY <1>2, <1>3, <1>4 DEF HoldsLease, CodeType
    <2>2. k \notin ConsumedCodes /\ ConsumedCodes' = ConsumedCodes \cup {k}
      BY <1>3, <2>1 DEF ConsumedCodes
    <2>3. UNCHANGED <<HandedCodes, Standing, over>>
      BY <1>1 DEF HandedCodes, Standing
    <2> QED BY <1>3, <2>2, <2>3 DEF GrantStep
  <1>5. CASE \/ code' = code
             \/ \E h \in Exchanges \cup {NoCode} : code' = [code EXCEPT ![k].holder = h]
    <2>1. \A c \in Codes : code'[c].consumed = code[c].consumed
      <3>1. ASSUME NEW h, code' = [code EXCEPT ![k].holder = h], NEW c \in Codes
            PROVE  code'[c].consumed = code[c].consumed
        BY <1>2, <1>3, <3>1 DEF CodeType
      <3> QED BY <1>5, <3>1
    <2> QED BY <1>1, <2>1, GrantStutters
  <1> QED BY <1>4, <1>5 DEF BackendRedeems, BackendCommits, BackendReleases

LEMMA SessionsGrant ==
    ASSUME AccessInv,
           \/ \E k \in Codes :
                \/ LeaseLapses(k) \/ AccessFmu(k) \/ RevokeFmu(k)
                \/ Evict(k) \/ CredentialExpires(k)
           \/ EdgeRestarts \/ UNCHANGED accessVars
    PROVE  GrantStep
  <1>0. code \in [Codes -> CodeType]
    BY DEF AccessInv, AccessTypeOK
  <1>1. ASSUME NEW k \in Codes, LeaseLapses(k)
        PROVE  GrantStep
    <2>1. UNCHANGED <<given, revoked, over>> /\ code' = [code EXCEPT ![k].holder = NoCode]
      BY <1>1 DEF LeaseLapses
    <2>2. \A c \in Codes : code'[c].consumed = code[c].consumed
      BY <1>0, <2>1 DEF CodeType
    <2> QED BY <2>1, <2>2, GrantStutters
  <1>2. ASSUME NEW k \in Codes, RevokeFmu(k)
        PROVE  GrantStep
    <2>1. revoked' = revoked \cup {k} /\ UNCHANGED <<given, code, over>>
      BY <1>2 DEF RevokeFmu
    <2>2. Standing' = Standing \ {k} /\ UNCHANGED <<ConsumedCodes, HandedCodes, over>>
      BY <2>1 DEF Standing, ConsumedCodes, HandedCodes
    <2>3. CASE k \in Standing
      BY <2>2, <2>3 DEF GrantStep
    <2>4. CASE k \notin Standing
      BY <2>2, <2>4 DEF GrantStep
    <2> QED BY <2>3, <2>4
  <1>3. ASSUME NEW k \in Codes, CredentialExpires(k)
        PROVE  GrantStep
    <2>1. k \notin over /\ over' = over \cup {k} /\ UNCHANGED <<given, code, revoked>>
      BY <1>3 DEF CredentialExpires
    <2>2. Standing' = Standing \ {k} /\ UNCHANGED <<ConsumedCodes, HandedCodes>>
      BY <2>1 DEF Standing, ConsumedCodes, HandedCodes
    <2> QED BY <2>1, <2>2 DEF GrantStep
  <1>4. ASSUME UNCHANGED <<given, code, revoked, over>>
        PROVE  GrantStep
    BY <1>4, GrantStutters
  <1>5. ASSUME NEW k \in Codes, AccessFmu(k) \/ Evict(k)
        PROVE  GrantStep
    BY <1>4, <1>5 DEF AccessFmu, Evict, atBackend
  <1>6. CASE EdgeRestarts \/ UNCHANGED accessVars
    BY <1>4, <1>6 DEF EdgeRestarts, accessVars, atBackend
  <1> QED BY <1>1, <1>2, <1>3, <1>5, <1>6

\* The exchange and its sessions implement the promise of AccessGrant, for every
\* number of codes and exchanges, if none of these outlasts its lease.
THEOREM ImplementsGrantCorrect ==
    ASSUME ~Slow
    PROVE  AccessSpec => ImplementsGrant
  <1>1. AccessInit => Grant!Init
    BY DEF AccessInit, Grant!Init, ConsumedCodes, HandedCodes, LiveSessions
  <1>2. AccessInv /\ AccessInv' /\ [AccessNext]_accessVars => [Grant!Next]_Grant!vars
    <2> SUFFICES ASSUME AccessInv, AccessInv', [AccessNext]_accessVars
                 PROVE  [Grant!Next]_Grant!vars
      OBVIOUS
    <2>1. GrantStep
      BY ExchangeGrants, BackendGrants, SessionsGrant DEF AccessNext
    <2>2. LiveSessions = Standing
      BY LiveIsStanding
    <2>3. LiveSessions' = Standing'
      <3>1. (AccessInv => LiveSessions = Standing)'
        BY LiveIsStanding, PTL
      <3> QED BY <3>1
    <2> QED BY <2>1, <2>2, <2>3 DEF GrantStep, Grant!Next, Grant!Consume, Grant!HandOut,
               Grant!Revoke, Grant!Expire, Grant!vars
  <1> QED BY <1>1, <1>2, AccessInvariance, PTL DEF AccessSpec, ImplementsGrant, Grant!Spec

=============================================================================
