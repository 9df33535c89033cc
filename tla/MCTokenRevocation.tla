------------------------- MODULE MCTokenRevocation -------------------------
(* An instance of TokenRevocation for TLC: the tokens of one user. *)
EXTENDS TokenRevocation

CONSTANTS t1, user

OneUser == [t \in Tokens |-> user]
=============================================================================
