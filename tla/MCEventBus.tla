------------------------------ MODULE MCEventBus ------------------------------
(* Instances of EventBus small enough for TLC. *)
EXTENDS EventBus, TLC

CONSTANTS publisher, other, news

MCMayPublish == {<<publisher, news>>}
MCOneSubscriber == {<<other, news>>}
=============================================================================
