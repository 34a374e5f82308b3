--------------------------- MODULE MCStateService ---------------------------
(* StateService on an instance small enough for TLC. *)
EXTENDS StateService, TLC

=============================================================================
