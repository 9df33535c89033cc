------------------------ MODULE ReservationLifecycle ------------------------
(***************************************************************************)
(* What the reservation automation promises of a reservation and its Lab   *)
(* Station, without scans, snapshots, cooldowns, failures or restarts: a   *)
(* reservation becomes ACTIVE or COMPLETED only when its station was       *)
(* prepared or released for it, is completed on a station that does not    *)
(* wait for it, and is not prepared once it is completed.                  *)
(***************************************************************************)
CONSTANTS Res, Hosts, HostOf,
          Free, ByHand      \* a station prepared for nobody, or by an operator

VARIABLES status,           \* the state of each reservation
          station,          \* whom each Lab Station is prepared for
          prepared,         \* reservations that were prepared
          released          \* reservations that were released

vars == <<status, station, prepared, released>>

Init ==
  /\ status = [r \in Res |-> "NONE"]
  /\ station = [h \in Hosts |-> Free]
  /\ prepared = {} /\ released = {}

Move(r, from, to) ==
  /\ status[r] \in from
  /\ status' = [status EXCEPT ![r] = to]
  /\ UNCHANGED <<station, prepared, released>>

Confirm(r)  == Move(r, {"NONE"}, "CONFIRMED")
Cancel(r)   == Move(r, {"CONFIRMED", "ACTIVE"}, "CANCELLED")
Activate(r) == r \in prepared /\ Move(r, {"CONFIRMED"}, "ACTIVE")

Complete(r) ==
  /\ r \in released
  /\ HostOf[r] \in Hosts /\ station[HostOf[r]] # r
  /\ Move(r, {"CONFIRMED", "ACTIVE"}, "COMPLETED")

\* The station waits for r, or for whom an operator has in mind: a completed
\* reservation is prepared by hand only.
Prepare(r, whom) ==
  /\ HostOf[r] \in Hosts
  /\ whom = ByHand \/ (whom = r /\ status[r] # "COMPLETED")
  /\ station' = [station EXCEPT ![HostOf[r]] = whom]
  /\ prepared' = prepared \cup {r}
  /\ UNCHANGED <<status, released>>

Release(r) ==
  /\ HostOf[r] \in Hosts
  /\ station' = [station EXCEPT ![HostOf[r]] = Free]
  /\ released' = released \cup {r}
  /\ UNCHANGED <<status, prepared>>

Next ==
  \E r \in Res :
    \/ Confirm(r) \/ Cancel(r) \/ Activate(r) \/ Complete(r)
    \/ Prepare(r, r) \/ Prepare(r, ByHand) \/ Release(r)

Spec == Init /\ [][Next]_vars
=============================================================================
