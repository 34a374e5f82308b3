------------------------------ MODULE MCWebBridge ------------------------------
(* Instances of WebBridge small enough for TLC. *)
EXTENDS WebBridge, TLC

CONSTANTS r1, r2, r3, d1, d2

\* An upgrade and the rollback that follows it.
MCUpgradeAndBack == <<d1, d2, d1>>
Ask(a, b, c) == (r1 :> a) @@ (r2 :> b) @@ (r3 :> c)
MCMixes == {Ask("asset", "asset", "page"), Ask("route", "route", "action"),
            Ask("asset", "page", "route")}
=============================================================================
