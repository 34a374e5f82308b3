----------------------------- MODULE MCComposition -----------------------------
(* Instances of Composition small enough for TLC. *)
EXTENDS Composition, TLC

CONSTANTS a1, a2

Offer(k, v) == [iface |-> k, version |-> v]
Need(k, vs) == [iface |-> k, versions |-> vs]
Face(provides, requires) == [provides |-> provides, requires |-> requires]

\* A library, its release with both versions, one that drops the old version and needs
\* what is built on it, and that middle layer.
MCFaces == {Face({Offer(1, 1)}, {}),
            Face({Offer(1, 1), Offer(1, 2)}, {}),
            Face({Offer(1, 2)}, {Need(2, {1})}),
            Face({Offer(2, 1)}, {Need(1, {1, 2})})}

Bound(k, i) == [NoPolicy EXCEPT !.bound[k] = i]
MCPolicies == {NoPolicy, [Bound(1, 2) EXCEPT !.excluded = {3}]}
AdminSymmetry == Permutations(Admins)
=============================================================================
