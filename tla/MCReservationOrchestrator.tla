--------------------- MODULE MCReservationOrchestrator ---------------------
(* Instances of ReservationOrchestrator for TLC. *)
EXTENDS ReservationOrchestrator, TLC
CONSTANT h1

OneHost == [r \in Res |-> h1]

\* The last reservation's lab has no host.
LastUnmapped == [r \in Res |-> IF r = N THEN Unmapped ELSE h1]
=============================================================================
