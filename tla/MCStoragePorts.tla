---------------------------- MODULE MCStoragePorts ----------------------------
(* StoragePorts on an instance small enough for TLC. *)
EXTENDS StoragePorts
=============================================================================
