------------------------ MODULE ObservationDelivery ------------------------
(***************************************************************************)
(* What the session-observation outbox promises, without its queue, its    *)
(* batches or its retries: an accepted observation stays queued until it   *)
(* is delivered, which it can be only after the audit backend recorded it, *)
(* or until it is given up; a given-up observation is queued again when    *)
(* the gateway observes the same session again, a delivered one never is.  *)
(***************************************************************************)
CONSTANT Obs                \* observations, named by their dedup key

VARIABLES phase,            \* what became of each observation
          recorded          \* observations the audit backend holds

Phases == {"none", "queued", "delivered", "failed"}

Init == /\ phase = [k \in Obs |-> "none"]
        /\ recorded = {}

\* The gateway reports a session: the first time, or again after a failure.
Accept(k) == /\ phase[k] \in {"none", "failed"}
             /\ phase' = [phase EXCEPT ![k] = "queued"]
             /\ UNCHANGED recorded

\* The backend stores a queued observation; storing it twice changes nothing.
Record(k) == /\ phase[k] = "queued"
             /\ recorded' = recorded \cup {k}
             /\ UNCHANGED phase

Deliver(k) == /\ phase[k] = "queued"
              /\ k \in recorded
              /\ phase' = [phase EXCEPT ![k] = "delivered"]
              /\ UNCHANGED recorded

\* Giving up says nothing of the backend: the answer may have been lost.
GiveUp(k) == /\ phase[k] = "queued"
             /\ phase' = [phase EXCEPT ![k] = "failed"]
             /\ UNCHANGED recorded

Next == \E k \in Obs : Accept(k) \/ Record(k) \/ Deliver(k) \/ GiveUp(k)

Spec == Init /\ [][Next]_<<phase, recorded>>

Settle(k) == Deliver(k) \/ GiveUp(k)

\* Every queued observation is settled in the end.
LiveSpec == Spec /\ \A k \in Obs : WF_<<phase, recorded>>(Settle(k))
=============================================================================
