----------------------------- MODULE MCDemoSlot -----------------------------
(* Instances of DemoSlot for TLC. *)
EXTENDS DemoSlot
CONSTANTS s1, s2, s3
=============================================================================
