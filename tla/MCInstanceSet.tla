----------------------------- MODULE MCInstanceSet -----------------------------
(* Instances of InstanceSet small enough for TLC. *)
EXTENDS InstanceSet, TLC

CONSTANTS t1, t2, t3, t4
=============================================================================
