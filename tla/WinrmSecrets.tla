---------------------------- MODULE WinrmSecrets ----------------------------
(***************************************************************************)
(* The encrypted store of WinRM credentials of the ops-worker: saving and  *)
(* reading a credential (ops-worker/worker.py), and the rotation of the    *)
(* Fernet key (ops-worker/rotate_secrets.py), which may die at any step.   *)
(*                                                                         *)
(* The operator follows ops-worker/README.md:159-170: no credential is     *)
(* saved during a rotation; after a good one the new key is deployed,      *)
(* after a failed one the backup is put back; the worker is restarted.     *)
(***************************************************************************)
EXTENDS Integers

CONSTANTS
    Refs,       \* credential references
    Keys,       \* Fernet keys (bounds the keys ever generated)
    FirstKey,   \* the key the deployment was set up with
    Values,     \* what a credential may be
    Nothing     \* no key, no value

ASSUME SecretsAssumption == FirstKey \in Keys /\ Nothing \notin Keys \cup Values

VARIABLES
    store,      \* OPS_CREDENTIALS_PATH: store[r] is a value under a key
    deployed,   \* OPS_SECRETS_KEY, as the worker and the rotation read it
    newKeyFile, \* the file of the rotation's new key, or Nothing
    backup,     \* the backup of the last rotation: store and key, if made
    fernet,     \* _FERNET, the key the worker has loaded, or Nothing
    rotation,   \* the rotation: its place, its new key
    made,       \* keys that exist or have existed
    kept        \* the credentials as the worker last wrote them

secretVars == <<store, deployed, newKeyFile, backup, fernet, rotation, made, kept>>

StoreType == [Refs -> [key: Keys \cup {Nothing}, value: Values \cup {Nothing}]]

RotationType ==
    [at: {"none", "asked", "read", "backed", "replaced", "done", "failed"},
     key: Keys \cup {Nothing}]

SecretsInit ==
    /\ store = [r \in Refs |-> [key |-> Nothing, value |-> Nothing]]
    /\ deployed = FirstKey
    /\ newKeyFile = Nothing
    /\ backup = [made |-> FALSE, store |-> [r \in Refs |-> [key |-> Nothing, value |-> Nothing]],
                 key |-> Nothing]
    /\ fernet = Nothing
    /\ rotation = [at |-> "none", key |-> Nothing]
    /\ made = {FirstKey}
    /\ kept = [r \in Refs |-> Nothing]

Stored(r) == store[r].value # Nothing

\* _load_fernet: the key is read once per process.
WorkerKey == IF fernet = Nothing THEN deployed ELSE fernet

\* load_winrm_credentials answers with the credential, or as if there were none.
Usable(r) == Stored(r) /\ store[r].key = WorkerKey

UseCredential(r) ==
    /\ Stored(r)
    /\ fernet' = WorkerKey
    /\ UNCHANGED <<store, deployed, newKeyFile, backup, rotation, made, kept>>

\* save_winrm_credentials, one request at a time.
SaveCredential(r, v) ==
    /\ rotation.at = "none"
    /\ fernet' = WorkerKey
    /\ store' = [store EXCEPT ![r] = [key |-> WorkerKey, value |-> v]]
    /\ kept' = [kept EXCEPT ![r] = v]
    /\ UNCHANGED <<deployed, newKeyFile, backup, rotation, made>>

\* The worker dies or is restarted.
SecretsRestart ==
    /\ fernet' = Nothing
    /\ UNCHANGED <<store, deployed, newKeyFile, backup, rotation, made, kept>>

\* The operator starts a rotation and keeps credentials from being written.
AskRotation ==
    /\ rotation.at = "none"
    /\ rotation' = [at |-> "asked", key |-> Nothing]
    /\ backup' = [backup EXCEPT !.made = FALSE]
    /\ UNCHANGED <<store, deployed, newKeyFile, fernet, made, kept>>

\* Every entry is decrypted with the current key before anything is written; one
\* that cannot be, or a missing store, ends the rotation.  The new key is the file's or a fresh one.
ReadStore ==
    /\ rotation.at = "asked"
    /\ IF /\ \E r \in Refs : Stored(r)
          /\ \A r \in Refs : Stored(r) => store[r].key = deployed
       THEN \E k \in IF newKeyFile # Nothing THEN {newKeyFile} ELSE Keys \ made :
                /\ rotation' = [at |-> "read", key |-> k]
                /\ made' = made \cup {k}
       ELSE /\ rotation' = [at |-> "failed", key |-> Nothing]
            /\ UNCHANGED made
    /\ UNCHANGED <<store, deployed, newKeyFile, backup, fernet, kept>>

\* _backup_files: the store and the current key.
BackUp ==
    /\ rotation.at = "read"
    /\ backup' = [made |-> TRUE, store |-> store, key |-> deployed]
    /\ rotation' = [rotation EXCEPT !.at = "backed"]
    /\ UNCHANGED <<store, deployed, newKeyFile, fernet, made, kept>>

\* Mutated form: the store is replaced before the backup is made.
ReplaceStoreFirst ==
    /\ rotation.at \in {"read", "backed"}
    /\ store' = [r \in Refs |->
            IF Stored(r) THEN [store[r] EXCEPT !.key = rotation.key] ELSE store[r]]
    /\ rotation' = [rotation EXCEPT !.at = "replaced"]
    /\ UNCHANGED <<deployed, newKeyFile, backup, fernet, made, kept>>

\* os.replace of the store, every entry under the new key ...
ReplaceStore ==
    /\ rotation.at = "backed"
    /\ store' = [r \in Refs |->
            IF Stored(r) THEN [store[r] EXCEPT !.key = rotation.key] ELSE store[r]]
    /\ rotation' = [rotation EXCEPT !.at = "replaced"]
    /\ UNCHANGED <<deployed, newKeyFile, backup, fernet, made, kept>>

\* ... and only then the new key is written to its file.
WriteKey ==
    /\ rotation.at = "replaced"
    /\ newKeyFile' = rotation.key
    /\ rotation' = [at |-> "done", key |-> Nothing]
    /\ UNCHANGED <<store, deployed, backup, fernet, made, kept>>

\* The rotation dies, at the latest before it reports success; a key that is in
\* no file dies with it.
RotationDies ==
    /\ rotation.at \in {"asked", "read", "backed", "replaced", "done"}
    /\ rotation' = [at |-> "failed", key |-> Nothing]
    /\ UNCHANGED <<store, deployed, newKeyFile, backup, fernet, made, kept>>

\* The new key takes the place of the current one.
DeployKey ==
    /\ rotation.at = "done"
    /\ deployed' = newKeyFile
    /\ newKeyFile' = Nothing
    /\ fernet' = Nothing
    /\ rotation' = [at |-> "none", key |-> Nothing]
    /\ UNCHANGED <<store, backup, made, kept>>

\* A failed rotation is undone from its backup, if it got so far.
RestoreBackup ==
    /\ rotation.at = "failed"
    /\ store' = IF backup.made THEN backup.store ELSE store
    /\ fernet' = Nothing
    /\ rotation' = [at |-> "none", key |-> Nothing]
    /\ UNCHANGED <<deployed, newKeyFile, backup, made, kept>>

SecretsNext ==
    \/ \E r \in Refs :
        \/ UseCredential(r)
        \/ \E v \in Values : SaveCredential(r, v)
    \/ SecretsRestart
    \/ AskRotation
    \/ ReadStore
    \/ BackUp
    \/ ReplaceStore
    \/ WriteKey
    \/ RotationDies
    \/ DeployKey
    \/ RestoreBackup

SecretsSpec == SecretsInit /\ [][SecretsNext]_secretVars

-----------------------------------------------------------------------------
SecretsTypeOK ==
    /\ store \in StoreType
    /\ deployed \in Keys
    /\ newKeyFile \in Keys \cup {Nothing}
    /\ backup \in [made: BOOLEAN, store: StoreType, key: Keys \cup {Nothing}]
    /\ fernet \in Keys \cup {Nothing}
    /\ rotation \in RotationType
    /\ made \subseteq Keys
    /\ kept \in [Refs -> Values \cup {Nothing}]

\* A credential the worker has saved can be read back at every moment, a dead
\* rotation included: from the store with a key that is in a file, or from the
\* rotation's backup; and once the operator is done, by the worker itself.
CredentialsSurvive ==
    \A r \in Refs : kept[r] # Nothing =>
        /\ \/ store[r].value = kept[r] /\ store[r].key \in {deployed, newKeyFile}
           \/ backup.made /\ backup.store[r] = [key |-> backup.key, value |-> kept[r]]
        /\ rotation.at = "none" => Usable(r) /\ store[r].value = kept[r]

=============================================================================
