------------------------------ MODULE MCPipeline ------------------------------
(* Instances of Pipeline small enough for TLC. *)
EXTENDS Pipeline, TLC

CONSTANTS none, l1, l2, x2, ap, cap

Offer(v) == [iface |-> 1, version |-> v]
Library == {l1, l2, x2}

\* A library of two releases, other bytes for the second one, an application of it.
\* The second release needs a capability and a newer schema.
MCProduct == [d \in Digests |-> IF d \in Library THEN "lib" ELSE "app"]
MCVersion == [d \in Digests |-> IF d \in {l2, x2} THEN 2 ELSE 1]
MCFaceOf == [d \in Digests |->
  CASE d = l1 -> [provides |-> {Offer(1)}, requires |-> {}]
    [] d \in {l2, x2} -> [provides |-> {Offer(1), Offer(2)}, requires |-> {}]
    [] d = ap -> [provides |-> {}, requires |-> {[iface |-> 1, versions |-> {1}]}]]
MCUses == [d \in Digests |-> IF d = l2 THEN {cap} ELSE {}]
MCSchemaOf == [d \in Digests |-> CASE d = l1 -> 1 [] d = l2 -> 2 [] OTHER -> 0]
MCPolicies == {[NoPolicy EXCEPT !.bound[1] = 1]}
===============================================================================
