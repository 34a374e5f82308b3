---------------------------- MODULE MCStateStore ----------------------------
(* StateStore with its checked sets: two keys are interchangeable. *)
EXTENDS StateStore, TLC

KeySymmetry == Permutations(Keys)
=============================================================================
