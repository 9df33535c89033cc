----------------------------- MODULE MCServices -----------------------------
(* Eight parts of the gateway that share no state, one in each behaviour.  *)
(* main.py:1575-1627 takes the local or the Station manager for the whole  *)
(* life of an fmu-runner; its key cache serves both.  The catalog and the  *)
(* credentials of the ops-worker are files of their own, its alerts and    *)
(* Guacamole's temporary users tables of their own, the sessions of the    *)
(* edge are its own too.  Local sessions share their slots with run and    *)
(* stream requests: "local" has all the clients and no such request,       *)
(* "shared" the requests and the inner hop of a Station.                   *)
EXTENDS RealtimeSessions, StationProxy, JwksCache, HostCatalog, WinrmSecrets,
        FailureAlerts, TemporaryUsers, AccessCodeExchange

VARIABLE part

vars == <<part, rtVars, proxyVars, jwksVars, catalogVars, secretVars,
          alertVars, userVars, accessVars>>

Init ==
    /\ part \in {"local", "shared", "station", "keys", "catalog", "credentials",
                "alerts", "users", "access"}
    /\ RealtimeInit /\ ProxyInit /\ JwksInit /\ CatalogInit /\ SecretsInit
    /\ AlertsInit /\ UsersInit /\ AccessInit

Next ==
    /\ UNCHANGED part
    /\ \/ /\ part = "local"
          /\ RealtimeNext
          /\ UNCHANGED job
          /\ UNCHANGED <<proxyVars, jwksVars, catalogVars, secretVars, alertVars, userVars, accessVars>>
       \/ /\ part = "shared"
          /\ RealtimeNext
          /\ \A c \in Conns \ Internal : UNCHANGED handler[c]
          /\ UNCHANGED <<proxyVars, jwksVars, catalogVars, secretVars, alertVars, userVars, accessVars>>
       \/ /\ part = "station"
          /\ ProxyNext
          /\ UNCHANGED <<rtVars, jwksVars, catalogVars, secretVars, alertVars, userVars, accessVars>>
       \/ /\ part = "keys"
          /\ JwksNext
          /\ UNCHANGED <<rtVars, proxyVars, catalogVars, secretVars, alertVars, userVars, accessVars>>
       \/ /\ part = "catalog"
          /\ CatalogNext
          /\ UNCHANGED <<rtVars, proxyVars, jwksVars, secretVars, alertVars, userVars, accessVars>>
       \/ /\ part = "credentials"
          /\ SecretsNext
          /\ UNCHANGED <<rtVars, proxyVars, jwksVars, catalogVars, alertVars, userVars, accessVars>>
       \/ /\ part = "alerts"
          /\ AlertsNext
          /\ UNCHANGED <<rtVars, proxyVars, jwksVars, catalogVars, secretVars, userVars, accessVars>>
       \/ /\ part = "users"
          /\ UsersNext
          /\ UNCHANGED <<rtVars, proxyVars, jwksVars, catalogVars, secretVars, alertVars, accessVars>>
       \/ /\ part = "access"
          /\ AccessNext
          /\ UNCHANGED <<rtVars, proxyVars, jwksVars, catalogVars, secretVars, alertVars, userVars>>

Spec == Init /\ [][Next]_vars /\ RealtimeFairness
=============================================================================
