---------------------------- MODULE AccessGrant ----------------------------
(***************************************************************************)
(* What an access code promises, without requests, leases, files, caches   *)
(* or restarts: it is consumed once, one cookie at most is handed out for  *)
(* it, and the FMU session of that cookie then lets its client in until it *)
(* is revoked or its credential expires, and never again.                  *)
(***************************************************************************)
CONSTANTS Codes, Fmu

VARIABLES consumed,         \* codes that were consumed
          handed,           \* codes for which a cookie was handed out
          live,             \* FMU sessions that let their client in
          over              \* codes whose credential has expired

vars == <<consumed, handed, live, over>>

Init == consumed = {} /\ handed = {} /\ live = {} /\ over = {}

Consume(k) ==
  /\ k \notin consumed
  /\ consumed' = consumed \cup {k}
  /\ UNCHANGED <<handed, live, over>>

HandOut(k) ==
  /\ k \in consumed \ handed
  /\ handed' = handed \cup {k}
  /\ live' = live \cup (({k} \cap Fmu) \ over)
  /\ UNCHANGED <<consumed, over>>

Revoke(k) ==
  /\ k \in live
  /\ live' = live \ {k}
  /\ UNCHANGED <<consumed, handed, over>>

Expire(k) ==
  /\ k \notin over
  /\ over' = over \cup {k}
  /\ live' = live \ {k}
  /\ UNCHANGED <<consumed, handed>>

Next == \E k \in Codes : Consume(k) \/ HandOut(k) \/ Revoke(k) \/ Expire(k)

Spec == Init /\ [][Next]_vars
=============================================================================
