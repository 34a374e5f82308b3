----------------------------- MODULE MCScheduler -----------------------------
(* Instances of Scheduler small enough for TLC. *)
EXTENDS Scheduler, TLC

CONSTANT i1

OneShot(at) == [kind |-> "one-shot", at |-> at, interval |-> 0]
Periodic(at, interval) == [kind |-> "periodic", at |-> at, interval |-> interval]

MCTriggers == {OneShot(2), Periodic(1, 1)}
=============================================================================
