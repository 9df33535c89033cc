--------------------------- MODULE TemporaryUsers ---------------------------
(***************************************************************************)
(* Temporary Guacamole users of reservations (ops-worker/worker.py):       *)
(* provisioning and deletion on behalf of the reservation service, and the *)
(* scheduled clean-up.  Each is one transaction on Guacamole's database,   *)
(* whose foreign keys delete a user's rows with its entity.                *)
(*                                                                         *)
(* A reservation ends at a moment, but valid_until is a date, and the      *)
(* clean-up compares dates.                                                *)
(***************************************************************************)
EXTENDS Integers

CONSTANTS
    Users,          \* sessionIds; the user is dlabs-res-<sessionId>
    Connections,    \* Guacamole connections
    Day,            \* moments in a day
    MaxTime,        \* bound of the clock
    NoDate          \* no valid_until

ASSUME UsersAssumption == Day \in Nat \ {0} /\ MaxTime \in Nat /\ NoDate \notin Int

VARIABLES
    account,    \* account[u]: entity, user and connection permissions
    promised,   \* promised[u]: what the caller was last told about u
    hour        \* the database's clock

userVars == <<account, promised, hour>>

NoAccount == [exists |-> FALSE, disabled |-> FALSE, until |-> NoDate, may |-> {}]
NoPromise == [active |-> FALSE, end |-> NoDate, may |-> {}]

UsersInit ==
    /\ account = [u \in Users |-> NoAccount]
    /\ promised = [u \in Users |-> NoPromise]
    /\ hour = 0

Date(end) == IF end = NoDate THEN NoDate ELSE end \div Day
Today == hour \div Day

\* POST /internal/guacamole/provision.  A first activation and any later one add
\* a permission; a provisioning without activation takes all of them.
ProvisionUser(u, c, end, activate) ==
    /\ account' = [account EXCEPT ![u] =
            [exists |-> TRUE, disabled |-> ~activate, until |-> Date(end),
             may |-> IF activate THEN @.may \cup {c} ELSE {}]]
    /\ promised' = [promised EXCEPT ![u] =
            [active |-> activate, end |-> end, may |-> {c}]]
    /\ UNCHANGED hour

\* DELETE /internal/guacamole/provision/<sessionId>
DeleteUser(u) ==
    /\ account[u].exists
    /\ account' = [account EXCEPT ![u] = NoAccount]
    /\ promised' = [promised EXCEPT ![u] = NoPromise]
    /\ UNCHANGED hour

\* Mutated form: the last day is taken for a day past the reservation.
OutdatedToday(u) ==
    /\ account[u].exists
    /\ account[u].until # NoDate
    /\ account[u].until <= Today

Outdated(u) ==
    /\ account[u].exists
    /\ account[u].until # NoDate
    /\ account[u].until < Today

\* cleanup_expired_guacamole_temp_users
CleanupUsers ==
    /\ account' = [u \in Users |-> IF Outdated(u) THEN NoAccount ELSE account[u]]
    /\ UNCHANGED <<promised, hour>>

HourPasses ==
    /\ hour < MaxTime
    /\ hour' = hour + 1
    /\ UNCHANGED <<account, promised>>

UsersNext ==
    \/ \E u \in Users :
        \/ \E c \in Connections, end \in 0..MaxTime \cup {NoDate}, activate \in BOOLEAN :
                ProvisionUser(u, c, end, activate)
        \/ DeleteUser(u)
    \/ CleanupUsers
    \/ HourPasses

UsersSpec == UsersInit /\ [][UsersNext]_userVars

-----------------------------------------------------------------------------
\* The clean-up never takes an account from a reservation that still runs, in
\* whatever hour of its last day and however often it was prolonged; and no
\* account may open a connection after a provisioning without activation.
ReservationKeepsUser ==
    \A u \in Users :
        /\ promised[u].active /\ (promised[u].end = NoDate \/ hour <= promised[u].end) =>
                /\ account[u].exists /\ ~account[u].disabled
                /\ promised[u].may \subseteq account[u].may
        /\ account[u].may # {} => account[u].exists /\ promised[u].active

=============================================================================
