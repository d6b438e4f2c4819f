------------------------------ MODULE MCHealth ------------------------------
(* Instances of Health for TLC. *)
EXTENDS Health

CONSTANT r1

UtcOrWest == {0, -1}
East == {2}
=============================================================================
