------------------------ MODULE MCObservationOutbox ------------------------
(* Instances of ObservationOutbox for TLC. *)
EXTENDS ObservationOutbox
CONSTANTS o1, o2
=============================================================================
