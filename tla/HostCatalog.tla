---------------------------- MODULE HostCatalog ----------------------------
(***************************************************************************)
(* The Lab Station host catalog of the ops-worker (ops-worker/worker.py):  *)
(* two catalog files, the registry built from them, and the admin requests *)
(* that add a host or reload.  Requests run on threads of one process.     *)
(* Only the two assignments that publish a registry are under a lock:      *)
(* loading, which resolves names and may take long, and the read, change   *)
(* and replacement of the dynamic file are not, and all writers use one    *)
(* name for the temporary file.                                            *)
(***************************************************************************)
EXTENDS FiniteSets

CONSTANTS
    Threads,    \* request threads
    Hosts,      \* catalog entries, one per host name
    Valid,      \* those that pass validate_winrm_catalog
    Static,     \* the entries of CONFIG_PATH
    NoThread

ASSUME CatalogAssumption ==
    /\ Valid \subseteq Hosts /\ Static \subseteq Valid
    /\ NoThread \notin Threads

VARIABLES
    dynamic,        \* DYNAMIC_CONFIG_PATH: its entries, whether it parses
    temporary,      \* whether the temporary file exists under its name
    hosts,          \* HOSTS
    automator,      \* RESERVATION_AUTOMATOR.registry
    lock,           \* holder of HOSTS_LOCK, or NoThread
    request,        \* request[t]: where t's request is and what it has read
    serving         \* whether the worker process runs

catalogVars == <<dynamic, temporary, hosts, automator, lock, request, serving>>

DynamicType == [entries: SUBSET Hosts, parses: BOOLEAN]

RequestType ==
    [at: {"idle", "upsert", "write", "load", "publish", "finish"}, read: SUBSET Hosts]

Idle == [at |-> "idle", read |-> {}]

CatalogInit ==
    /\ dynamic = [entries |-> {}, parses |-> TRUE]
    /\ temporary = FALSE
    /\ hosts = Static
    /\ automator = Static
    /\ lock = NoThread
    /\ request = [t \in Threads |-> Idle]
    /\ serving = TRUE

\* load_config: both files merged, and no entry that fails validation.
Merged == Static \cup dynamic.entries
Loads == dynamic.parses /\ Merged \subseteq Valid

Step(t, from, r) ==
    /\ serving
    /\ request[t].at = from
    /\ request' = [request EXCEPT ![t] = r]

\* POST /api/hosts/provision of an unknown host reads the dynamic file.
Provision(t, h) ==
    /\ h \notin hosts
    /\ IF dynamic.parses
       THEN Step(t, "idle", [at |-> "upsert", read |-> dynamic.entries \cup {h}])
       ELSE Step(t, "idle", Idle)
    /\ UNCHANGED <<dynamic, temporary, hosts, automator, lock, serving>>

OpenTemporary(t) ==
    /\ Step(t, "upsert", [request[t] EXCEPT !.at = "write"])
    /\ temporary' = TRUE
    /\ UNCHANGED <<dynamic, hosts, automator, lock, serving>>

\* The temporary file takes the catalog's place.  Another writer that has it open
\* writes on into the catalog itself, and then finds the name gone: its request
\* fails, its text or a mixture of both is left.
ReplaceDynamic(t) ==
    LET mine == [entries |-> request[t].read, parses |-> TRUE]
        torn == [entries |-> {}, parses |-> FALSE]
        shared == \E u \in Threads \ {t} : request[u].at = "write"
    IN  /\ IF temporary
           THEN /\ Step(t, "write", [at |-> "load", read |-> {}])
                /\ dynamic' \in {mine} \cup (IF shared THEN {torn} ELSE {})
           ELSE /\ Step(t, "write", Idle)
                /\ dynamic' \in {mine, torn, dynamic}
        /\ temporary' = FALSE
        /\ UNCHANGED <<hosts, automator, lock, serving>>

\* POST /api/hosts/reload, and the reload after saved credentials.
Reload(t) ==
    /\ Step(t, "idle", [at |-> "load", read |-> {}])
    /\ UNCHANGED <<dynamic, temporary, hosts, automator, lock, serving>>

\* The files are read and validated; on any failure the registry in use stays.
LoadConfig(t) ==
    /\ Step(t, "load", IF Loads THEN [at |-> "publish", read |-> Merged] ELSE Idle)
    /\ UNCHANGED <<dynamic, temporary, hosts, automator, lock, serving>>

\* Mutated form: the registry is published without waiting for the lock.
PublishHostsUnlocked(t) ==
    /\ lock' = t
    /\ Step(t, "publish", [request[t] EXCEPT !.at = "finish"])
    /\ hosts' = request[t].read
    /\ UNCHANGED <<dynamic, temporary, automator, serving>>

PublishHosts(t) ==
    /\ lock = NoThread
    /\ lock' = t
    /\ Step(t, "publish", [request[t] EXCEPT !.at = "finish"])
    /\ hosts' = request[t].read
    /\ UNCHANGED <<dynamic, temporary, automator, serving>>

PublishAutomator(t) ==
    /\ Step(t, "finish", Idle)
    /\ automator' = request[t].read
    /\ lock' = NoThread
    /\ UNCHANGED <<dynamic, temporary, hosts, serving>>

\* The process dies and starts again: a catalog that does not load keeps it down.
CatalogRestart ==
    /\ serving' = Loads
    /\ hosts' = IF Loads THEN Merged ELSE {}
    /\ automator' = IF Loads THEN Merged ELSE {}
    /\ lock' = NoThread
    /\ request' = [t \in Threads |-> Idle]
    /\ UNCHANGED <<dynamic, temporary>>

\* External: the operator repairs the file of a worker that does not start.
Repair ==
    /\ ~serving
    /\ \E kept \in SUBSET (dynamic.entries \cap Valid) :
            dynamic' = [entries |-> kept, parses |-> TRUE]
    /\ UNCHANGED <<temporary, hosts, automator, lock, request, serving>>

CatalogNext ==
    \/ \E t \in Threads :
        \/ \E h \in Hosts : Provision(t, h)
        \/ OpenTemporary(t)
        \/ ReplaceDynamic(t)
        \/ Reload(t)
        \/ LoadConfig(t)
        \/ PublishHosts(t)
        \/ PublishAutomator(t)
    \/ CatalogRestart
    \/ Repair

CatalogSpec == CatalogInit /\ [][CatalogNext]_catalogVars

-----------------------------------------------------------------------------
CatalogTypeOK ==
    /\ dynamic \in DynamicType
    /\ temporary \in BOOLEAN
    /\ hosts \subseteq Hosts
    /\ automator \subseteq Hosts
    /\ lock \in Threads \cup {NoThread}
    /\ request \in [Threads -> RequestType]
    /\ serving \in BOOLEAN

\* The API and the reservation automator work on the same catalog, and it holds
\* no host that fails validation: whatever a failed request or a torn file left,
\* in whatever order reloads end (ops-worker/README.md:151).
OneValidCatalog ==
    /\ lock = NoThread => hosts = automator
    /\ hosts \cup automator \subseteq Valid

=============================================================================
